---- MODULE Spec2Model ----
(***************************************************************************)
(* Neon Circuit - Cyber Marble Siege: the frame-stepped simulation core of *)
(* the GameCanvas component (marble store, chain physics, projectile       *)
(* collision, match resolution, win/loss signalling).                      *)
(*                                                                         *)
(* Numbers.  The program computes in IEEE doubles.  The model computes in  *)
(* exact fixed point: every length, offset, position and velocity is an    *)
(* integer number of hundredths of a pixel, particle and text life is in   *)
(* hundredths.  Rounding error of the doubles is below the resolution of   *)
(* the model, except where it decides a branch: a closing pull moves a     *)
(* chain onto the contact distance, and the rounding of that sum decides   *)
(* whether the overlap pass sees a contact (see Landing).                  *)
(* Sequences are 1-based: store index k of the program is index k+1 here.  *)
(***************************************************************************)
EXTENDS Integers, Sequences, FiniteSets, TLC

----------------------------------------------------------------------------
(* Program constants                                                        *)

MARBLE_RADIUS == 13
PROJECTILE_SPEED == 60
CREDITS_PER_MARBLE == 10
CREDITS_PER_COMBO == 50

\* hundredths of a pixel in n pixels
Px(n) == n * 100

\* const required = MARBLE_RADIUS * 2
Required == Px(MARBLE_RADIUS * 2)

\* MARBLE_RADIUS * 2 + 3.0 : largest gap inside one chain
ChainGap == Px(MARBLE_RADIUS * 2) + 300

\* (MARBLE_RADIUS * 1.8) ** 2
hitDistSq == (MARBLE_RADIUS * 180) * (MARBLE_RADIUS * 180)

MarbleTypes == {"NORMAL", "WILDCARD", "BOMB", "ICE", "COIN"}

TriggerTypes == {"BOMB", "COIN", "ICE"}

PowerupTypes == {"EMP", "SLOW", "REVERSE"}

----------------------------------------------------------------------------
(* Bounds of the model                                                      *)

\* frames stepped in one session that takes player and host inputs
MaxFrames == 7
\* frames stepped in one session without inputs
QuietFrames == 32
\* frames stepped in one session in which the player only shoots
PlayFrames == 30
\* frames granted beyond the frame cap to a win that is pending
WinGrace == 20
\* longest marble store drawn as input of handleMatches
MaxLen == 5
\* longest marble store drawn as input of the collision step
MaxStore == 3

----------------------------------------------------------------------------
(* Inputs: level configuration, upgrades, viewports                         *)

Colors == {"CYAN", "MAGENTA"}

\* LevelConfig of a session with spawnCount marbles to spawn
Level(spawnCount) ==
  [ colors |-> Colors, spawnCount |-> spawnCount, speedMultiplier |-> 14 ]

\* upgrades[UpgradeType.X] of the player
upgrades ==
  [ SPEED |-> 0, LUCK |-> 0, EFFICIENCY |-> 0, BLAST_RADIUS |-> 0,
    REVERSE_FORCE |-> 0 ]

\* window.innerWidth, window.innerHeight in pixels
Viewports == { <<60, 100>>, <<80, 100>> }

\* Math.random() of the spawn type roll, in thousandths
Rolls == { 10, 30, 45, 55, 500 }

\* the rolls of a session that spawns WILDCARD and NORMAL marbles only
PlainRolls == { 10, 500 }

\* colour and type of the marbles of a store drawn as input of handleMatches
MatchKinds ==
  { << "CYAN", "NORMAL" >>, << "MAGENTA", "NORMAL" >>, << "YELLOW", "NORMAL" >>,
    << "CYAN", "WILDCARD" >>, << "CYAN", "BOMB" >> }

\* colour and type of the marbles of a store drawn as input of a collision
HitKinds ==
  { << "CYAN", "NORMAL" >>, << "MAGENTA", "NORMAL" >>, << "CYAN", "WILDCARD" >>,
    << "CYAN", "BOMB" >>, << "CYAN", "COIN" >>, << "CYAN", "ICE" >> }

\* offsets of the core-most marble and gaps between neighbours of such a
\* store: in contact, or a chain of its own farther than a bomb reaches
HeadOffsets == { 16600, 17200 }

Gaps == { Px(MARBLE_RADIUS * 2), Px(120) }

\* comboStreak when the projectile is stepped
Streaks == { 0, 2 }

\* rounding of the sum that ends a closing pull, in units of the last place:
\* 0 lands on the contact distance (or beyond), 1 lands short of it
Roundings == { 0, 1 }

\* directions (cos, sin) of the aim of a click, away from the centre
Aims == { <<0, 1>>, <<0, -1>> }

----------------------------------------------------------------------------
(* Stats derived from the upgrades                                          *)

\* PROJECTILE_SPEED + upgrades[SPEED] * 3, pixels per frame
projectileSpeed == PROJECTILE_SPEED + upgrades.SPEED * 3

\* 0.02 + upgrades[LUCK] * 0.02, in thousandths, for a LUCK level
BaseChance(luck) == 20 + luck * 20

\* 0.02 + luckFactor, in thousandths
baseChance == BaseChance(upgrades.LUCK)

\* 1 + upgrades[EFFICIENCY] * 0.2, in tenths
scoreMultiplier == 10 + upgrades.EFFICIENCY * 2

\* 1 + upgrades[BLAST_RADIUS] * 0.15, in hundredths
blastRadiusMultiplier == 100 + upgrades.BLAST_RADIUS * 15

\* 1 + upgrades[REVERSE_FORCE] * 0.15, in hundredths
reverseForceMultiplier == 100 + upgrades.REVERSE_FORCE * 15

----------------------------------------------------------------------------
(* Helpers                                                                  *)

Min(a, b) == IF a < b THEN a ELSE b

Max(a, b) == IF a > b THEN a ELSE b

Abs(a) == IF a < 0 THEN -a ELSE a

\* Math.floor(a / b) for b > 0
FloorDiv(a, b) == a \div b

\* Math.ceil(a / b) for a >= 0, b > 0
CeilDiv(a, b) == (a + b - 1) \div b

\* Array.prototype.splice(i, n) on a 1-based sequence: drops q[i..i+n-1]
Splice(q, i, n) ==
  [ k \in 1..(Len(q) - n) |-> IF k < i THEN q[k] ELSE q[k + n] ]

\* Array.prototype.splice(i, 0, x): x becomes element i
InsertAt(q, i, x) ==
  [ k \in 1..(Len(q) + 1) |->
      IF k < i THEN q[k] ELSE IF k = i THEN x ELSE q[k - 1] ]

\* n copies of x
Repeat(x, n) == [ k \in 1..n |-> x ]

\* marblesRef.current.sort((a, b) => b.offset - a.offset): stable, descending
RECURSIVE SortInsert(_, _)
SortInsert(sorted, m) ==
  IF sorted = << >> THEN << m >>
  ELSE IF sorted[Len(sorted)].offset >= m.offset THEN Append(sorted, m)
  ELSE Append(SortInsert(SubSeq(sorted, 1, Len(sorted) - 1), m),
              sorted[Len(sorted)])

RECURSIVE SortDesc(_)
SortDesc(q) ==
  IF q = << >> THEN << >>
  ELSE SortInsert(SortDesc(SubSeq(q, 1, Len(q) - 1)), q[Len(q)])

----------------------------------------------------------------------------
(* Path geometry (utils/math)                                               *)

\* number of segments of the resampled polyline
PathSegments == 4

\* generatePathPoints(type, width, height): the polyline of the level.
\* The curve catalog is configuration; the modelled level runs along a
\* straight horizontal line below the shooter, from x = 0 to x = width.
generatePathPoints(width, height) ==
  [ i \in 1..(PathSegments + 1) |->
      [ x |-> IF i = PathSegments + 1 THEN Px(width)
              ELSE (Px(width) * (i - 1)) \div PathSegments,
        y |-> (Px(height) * 3) \div 4 ] ]

\* getDistance(p1, p2) for two points of an axis-parallel segment
getDistance(p1, p2) == Abs(p1.x - p2.x) + Abs(p1.y - p2.y)

RECURSIVE getPathLengthFrom(_, _)
getPathLengthFrom(points, i) ==
  IF i > Len(points) THEN 0
  ELSE getDistance(points[i - 1], points[i]) + getPathLengthFrom(points, i + 1)

\* getPathLength(points)
getPathLength(points) == getPathLengthFrom(points, 2)

\* getPointAtDistance returning the point before the last at the far end
getPointAtDistance_ShortEnd(distance, points, totalLength) ==
  IF distance <= 0 THEN points[1]
  ELSE IF distance >= totalLength THEN points[Len(points) - 1]
  ELSE
    LET n1 == Len(points) - 1
        safeIdx == Max(0, Min(FloorDiv(distance * n1, totalLength),
                              Len(points) - 2))
        num == distance * n1 - safeIdx * totalLength
    IN [ x |-> points[safeIdx + 1].x
                 + FloorDiv((points[safeIdx + 2].x - points[safeIdx + 1].x)
                            * num, totalLength),
         y |-> points[safeIdx + 1].y
                 + FloorDiv((points[safeIdx + 2].y - points[safeIdx + 1].y)
                            * num, totalLength) ]

\* getPointAtDistance(distance, points, totalLength)
getPointAtDistance(distance, points, totalLength) ==
  IF distance <= 0 THEN points[1]
  ELSE IF distance >= totalLength THEN points[Len(points)]
  ELSE
    LET n1 == Len(points) - 1
        idx == FloorDiv(distance * n1, totalLength)
        safeIdx == Max(0, Min(idx, Len(points) - 2))
        p1 == points[safeIdx + 1]
        p2 == points[safeIdx + 2]
        \* ratio = (distance - safeIdx * segmentLen) / segmentLen
        num == distance * n1 - safeIdx * totalLength
    IN [ x |-> p1.x + FloorDiv((p2.x - p1.x) * num, totalLength),
         y |-> p1.y + FloorDiv((p2.y - p1.y) * num, totalLength) ]

\* squared Euclidean distance; getDistance(a, b) < r is DistSq(a, b) < r * r
DistSq(a, b) == (a.x - b.x) * (a.x - b.x) + (a.y - b.y) * (a.y - b.y)

----------------------------------------------------------------------------
(* The simulator context.  The operators below take and return a record s  *)
(* holding the refs of GameCanvas (field X models XRef.current), the       *)
(* callbacks emitted so far by the running handler (s.events) and the      *)
(* observation log of the running handler (s.log).                         *)

\* screen point of a marble
MarblePoint(s, m) ==
  getPointAtDistance(m.offset, s.pathPoints, s.pathLength)

Emit(s, e) == [ s EXCEPT !.events = Append(@, e) ]

Note(s, e) == [ s EXCEPT !.log = Append(@, e) ]

\* spawnParticles(x, y, color): 8 particles of life 1.0
spawnParticles(s) ==
  [ s EXCEPT !.particles = @ \o Repeat(100, 8) ]

\* addFloatingText(x, y, text, color, scale): life 1.0
addFloatingText(s, text) ==
  [ s EXCEPT !.floatingTexts = Append(@, [ text |-> text, life |-> 100 ]) ]

\* indices of the marbles of q whose id is not in ids, in order
RECURSIVE DropIds(_, _)
DropIds(q, ids) ==
  IF q = << >> THEN << >>
  ELSE IF q[1].id \in ids THEN DropIds(Tail(q), ids)
  ELSE << q[1] >> \o DropIds(Tail(q), ids)

RECURSIVE ApplyN(_, _)
ApplyN(s, n) == IF n = 0 THEN s ELSE ApplyN(spawnParticles(s), n - 1)

\* the ids of the marbles of s within radius of pt: toDestroy
ToDestroy(s, pt, radius) ==
  { s.marbles[k].id : k \in { j \in 1..Len(s.marbles) :
      DistSq(pt, MarblePoint(s, s.marbles[j])) < radius * radius } }

\* toDestroy.sort(...).forEach(idx => { splice(idx, 1); spawnParticles })
Destroy(s, ids) ==
  ApplyN([ s EXCEPT !.marbles = DropIds(@, ids) ], Cardinality(ids))

\* explodeArea(x, y, radius): radius in hundredths of a pixel
explodeArea(s, pt, radius) ==
  Destroy(spawnParticles(s), ToDestroy(s, pt, radius))

\* marblesRef.current.indexOf(marble), 0 when absent
IndexOfId(q, id) ==
  IF \E k \in 1..Len(q) : q[k].id = id
  THEN CHOOSE k \in 1..Len(q) : q[k].id = id
  ELSE 0

\* const currentIdx = indexOf(bombMarble); if (currentIdx !== -1) splice
RemoveBomb(s, bombMarble) ==
  LET currentIdx == IndexOfId(s.marbles, bombMarble.id)
  IN IF currentIdx # 0
     THEN [ s EXCEPT !.marbles = Splice(@, currentIdx, 1) ]
     ELSE s

\* explodeBomb(bombMarble, index)
explodeBomb(s, bombMarble) ==
  RemoveBomb(explodeArea(addFloatingText(s, "BOOM!"),
                         MarblePoint(s, bombMarble),
                         blastRadiusMultiplier * 100),
             bombMarble)

\* const currentIdx = indexOf(marble); if (currentIdx !== -1) { splice;
\* spawnParticles }
RemovePickup(s, marble) ==
  LET currentIdx == IndexOfId(s.marbles, marble.id)
  IN IF currentIdx # 0
     THEN spawnParticles([ s EXCEPT !.marbles = Splice(@, currentIdx, 1) ])
     ELSE s

\* Math.floor(50 * scoreMultiplier)
coinAmount == FloorDiv(50 * scoreMultiplier, 10)

\* collectCoin(marble, index)
collectCoin(s, marble) ==
  RemovePickup(
    Emit([ addFloatingText(s, "+CR") EXCEPT !.credits = @ + coinAmount ],
         [ cb |-> "onCreditsUpdate", amount |-> coinAmount ]),
    marble)

\* activateIce(marble, index)
activateIce(s, marble) ==
  RemovePickup([ addFloatingText(s, "CONGELADO") EXCEPT !.slowMoTimer = 180 ],
               marble)

\* the special effect of a trigger-type marble
Trigger(s, m) ==
  IF m.type = "BOMB" THEN explodeBomb(s, m)
  ELSE IF m.type = "COIN" THEN collectCoin(s, m)
  ELSE activateIce(s, m)

----------------------------------------------------------------------------
(* handleMatches(idx, isCombo)                                             *)

\* isMatch without the pivot's own WILDCARD case
isMatch_ColourOnly(other, pivotMarble) ==
  \/ other.color = pivotMarble.color
  \/ other.type = "WILDCARD"

\* prev.color === pivotColor || prev.type === WILDCARD || pivot.type === WILDCARD
isMatch(other, pivotMarble) ==
  \/ other.color = pivotMarble.color
  \/ other.type = "WILDCARD"
  \/ pivotMarble.type = "WILDCARD"

\* while (start > 0) { ... start-- }
RECURSIVE RunStart(_, _, _)
RunStart(marbles, pivotMarble, start) ==
  IF start > 1 /\ isMatch(marbles[start - 1], pivotMarble)
  THEN RunStart(marbles, pivotMarble, start - 1)
  ELSE start

\* while (end < marbles.length - 1) { ... end++ }
RECURSIVE RunEnd(_, _, _)
RunEnd(marbles, pivotMarble, end) ==
  IF end < Len(marbles) /\ isMatch(marbles[end + 1], pivotMarble)
  THEN RunEnd(marbles, pivotMarble, end + 1)
  ELSE end

\* a run one marble longer than the code asks for
IsRun_Four(count) == count > 3

\* if (count >= 3)
IsRun(count) == count >= 3

\* The factor 1 + (comboStreak * 0.1) is a double: entry k is the error
\* fl(1 + fl(k * 0.1)) - (1 + k / 10) of that double in units of
\* 1 / (10 * 2^52), for k = 1..9 (1.2 is 0x3FF3333333333333, two units
\* short; 1.4 is 0x3FF6666666666666, four units short)
StreakError == << 0, -2, 2, -4, 0, 4, 8, 2, -4 >>

\* the largest power of two, from p on, that is at most n
RECURSIVE Pow2Below(_, _)
Pow2Below(n, p) == IF 2 * p > n THEN p ELSE Pow2Below(n, 2 * p)

\* the double product points * factor falls below the integer n it equals
\* in exact arithmetic: the factor is short by -err units and the product
\* is short by more than half the spacing of the doubles at n, which is
\* 2^e / 2^52 for 2^e <= n; twice is 2 * points, err the error of the factor
FallsShort(twice, n, err) ==
  err < 0 /\ twice * (-err) > 10 * Pow2Below(n, 1)

\* Math.floor(points * (1 + (comboStreak * 0.1))) for twice = 2 * points, a
\* multiple of 20
StreakPoints(twice, n, comboStreak) ==
  IF comboStreak <= Len(StreakError)
       /\ FallsShort(twice, n, StreakError[comboStreak])
  THEN n - 1 ELSE n

\* count * 100 * scoreMultiplier, * 1.5 if isCombo, * (1 + streak * 0.1) if
\* comboStreak > 1, floored; the first two products are exact in doubles
\* for the scoreMultiplier of the model
Points(twice, comboStreak) ==
  IF comboStreak > 1
  THEN StreakPoints(twice, (twice * (10 + comboStreak)) \div 20, comboStreak)
  ELSE FloorDiv(twice, 2)

MatchPoints(count, isCombo, comboStreak) ==
  Points((count * 100 * scoreMultiplier * (IF isCombo THEN 3 ELSE 2)) \div 10,
         comboStreak)

\* Math.floor(earnedCredits * scoreMultiplier)
MatchCredits(count, isCombo) ==
  FloorDiv((count * CREDITS_PER_MARBLE
              + (IF isCombo THEN CREDITS_PER_COMBO ELSE 0))
             * scoreMultiplier, 10)

\* the special effect of the pivot only: a run with a trigger-type marble
\* is removed as a plain run
Special_PivotOnly(marbles, idx, start, end) ==
  IF marbles[idx].type \in TriggerTypes THEN idx ELSE 0

\* the store index of the marble whose special effect handleMatches
\* triggers, 0 if none: the pivot, or the first trigger-type marble of a run
\* of three or more (for (let k = start; k <= end; k++))
Special(marbles, idx, start, end) ==
  IF marbles[idx].type \in TriggerTypes THEN idx
  ELSE IF IsRun(end - start + 1)
            /\ \E k \in start..end : marbles[k].type \in TriggerTypes
       THEN CHOOSE k \in start..end :
              /\ marbles[k].type \in TriggerTypes
              /\ \A j \in start..(k - 1) : marbles[j].type \notin TriggerTypes
       ELSE 0

\* the removal of a run: particles, text, score, credits, splice(start, count)
RemoveRun(s, start, count, isCombo, points, earned) ==
  [ Emit([ addFloatingText(spawnParticles(s),
                           IF isCombo THEN "COMBO" ELSE "+")
             EXCEPT !.score = @ + points, !.credits = @ + earned ],
         [ cb |-> "onCreditsUpdate", amount |-> earned ])
      EXCEPT !.marbles = Splice(@, start, count), !.ret = TRUE ]

\* handleMatches once start and end are scanned; k is the marble to trigger
MatchRun(s, isCombo, start, end, k) ==
  IF k # 0 THEN [ Trigger(s, s.marbles[k]) EXCEPT !.ret = TRUE ]
  ELSE IF IsRun(end - start + 1)
       THEN RemoveRun(s, start, end - start + 1, isCombo,
                      MatchPoints(end - start + 1, isCombo, s.comboStreak),
                      MatchCredits(end - start + 1, isCombo))
       ELSE [ s EXCEPT !.ret = FALSE ]

\* the scan of the run around the pivot
ScanRun(s, idx, isCombo, start, end) ==
  MatchRun(s, isCombo, start, end, Special(s.marbles, idx, start, end))

\* the result is the context with field ret set to the returned boolean
handleMatches(s, idx, isCombo) ==
  IF idx < 1 \/ idx > Len(s.marbles) THEN [ s EXCEPT !.ret = FALSE ]
  ELSE ScanRun(s, idx, isCombo,
               RunStart(s.marbles, s.marbles[idx], idx),
               RunEnd(s.marbles, s.marbles[idx], idx))


----------------------------------------------------------------------------
(* animate(time): one frame of the game loop                               *)

\* the spawn roll with the first two tiers in the other order
SpawnRoll_BombFirst(rnd, chance) ==
  IF rnd < chance THEN "BOMB"
  ELSE IF rnd < chance * 2 THEN "WILDCARD"
  ELSE IF rnd * 10 < chance * 25 THEN "ICE"
  ELSE IF rnd < chance * 3 THEN "COIN"
  ELSE "NORMAL"

\* the spawn roll with tiers that include their upper boundary
SpawnRoll_Inclusive(rnd, chance) ==
  IF rnd <= chance THEN "WILDCARD"
  ELSE IF rnd <= chance * 2 THEN "BOMB"
  ELSE IF rnd * 10 <= chance * 25 THEN "ICE"
  ELSE IF rnd <= chance * 3 THEN "COIN"
  ELSE "NORMAL"

\* the type chosen by the spawn roll rnd for a base chance (thousandths):
\* let type = NORMAL; if (rnd < baseChance) ... else if ...
SpawnRoll(rnd, chance) ==
  IF rnd < chance THEN "WILDCARD"
  ELSE IF rnd < chance * 2 THEN "BOMB"
  ELSE IF rnd * 10 < chance * 25 THEN "ICE"
  ELSE IF rnd < chance * 3 THEN "COIN"
  ELSE "NORMAL"

\* the type chosen by the spawn roll rnd with the player's upgrades
SpawnType(rnd) == SpawnRoll(rnd, baseChance)

RECURSIVE MinOffsetFrom(_, _, _)
MinOffsetFrom(marbles, k, acc) ==
  IF k > Len(marbles) THEN acc
  ELSE MinOffsetFrom(marbles, k + 1, Min(acc, marbles[k].offset))

\* let minOffset = 999999; marbles.forEach(m => minOffset = Math.min(...))
MinOffset(marbles) == MinOffsetFrom(marbles, 1, Px(999999))

\* isRushPhase ? MARBLE_RADIUS * 2.2 : MARBLE_RADIUS * 2.4
GapRequirement(marblesSpawned) ==
  IF marblesSpawned < 18 THEN MARBLE_RADIUS * 220 ELSE MARBLE_RADIUS * 240

\* a spawn test that admits a marble at the gap requirement
SpawnDue_AtRequirement(s) ==
  /\ s.marblesSpawned < s.level.spawnCount
  /\ \/ Len(s.marbles) = 0
     \/ MinOffset(s.marbles) >= GapRequirement(s.marblesSpawned)

\* does this frame spawn a marble
SpawnDue(s) ==
  /\ s.marblesSpawned < s.level.spawnCount
  /\ \/ Len(s.marbles) = 0
     \/ MinOffset(s.marbles) > GapRequirement(s.marblesSpawned)

NewMarble(id, color, type, offset) ==
  [ id |-> id, color |-> color, type |-> type, offset |-> offset,
    speed |-> 0, backwards |-> FALSE ]

\* Spawning with a win check that does not wait for the particles
Spawning_NoParticleTest(s, color, rnd) ==
  IF s.marblesSpawned < s.level.spawnCount
  THEN IF SpawnDue(s)
       THEN [ s EXCEPT
                !.marbles = Append(@, NewMarble(s.nextId, color,
                                                SpawnType(rnd), 0)),
                !.nextId = @ + 1,
                !.marblesSpawned = @ + 1 ]
       ELSE s
  ELSE IF Len(s.marbles) = 0
       THEN Emit(s, [ cb |-> "onGameOver", score |-> s.score, win |-> TRUE ])
       ELSE s

\* Spawning that goes on past the quota of the level
Spawning_PastQuota(s, color, rnd) ==
  IF Len(s.marbles) = 0 \/ MinOffset(s.marbles) > GapRequirement(s.marblesSpawned)
  THEN [ s EXCEPT
           !.marbles = Append(@, NewMarble(s.nextId, color, SpawnType(rnd), 0)),
           !.nextId = @ + 1,
           !.marblesSpawned = @ + 1 ]
  ELSE s

\* 1. Spawning, and the win check in its else branch
Spawning(s, color, rnd) ==
  IF s.marblesSpawned < s.level.spawnCount
  THEN IF SpawnDue(s)
       THEN [ s EXCEPT
                !.marbles = Append(@, NewMarble(s.nextId, color,
                                                SpawnType(rnd), 0)),
                !.nextId = @ + 1,
                !.marblesSpawned = @ + 1 ]
       ELSE s
  ELSE IF Len(s.marbles) = 0 /\ Len(s.particles) = 0
       THEN Emit(s, [ cb |-> "onGameOver", score |-> s.score, win |-> TRUE ])
       ELSE s

\* the chains of a sorted store, as index ranges <<first, last>>, the chain
\* closest to the core first
RECURSIVE ChainsFrom(_, _, _, _)
ChainsFrom(marbles, i, first, acc) ==
  IF i > Len(marbles) THEN Append(acc, << first, Len(marbles) >>)
  ELSE IF marbles[i - 1].offset - marbles[i].offset <= ChainGap
       THEN ChainsFrom(marbles, i + 1, first, acc)
       ELSE ChainsFrom(marbles, i + 1, i, Append(acc, << first, i - 1 >>))

Chains(marbles) ==
  IF Len(marbles) = 0 THEN << >> ELSE ChainsFrom(marbles, 2, 1, << >>)

\* slowMoTimerRef.current > 0 ? 0.4 : 1.0, in tenths
TimeScale(s) == IF s.slowMoTimer > 0 THEN 4 ELSE 10

\* Math.min(1 + (frameCount / 60) * 0.000005, 2.0), in ten-thousandths
SpeedFactor(s) == Min(10000 + s.frameCount \div 1200, 20000)

\* isRushStart ? 3.0 : 1.0
IntroMultiplier(s) ==
  LET leadOffset == IF Len(s.marbles) > 0 THEN s.marbles[1].offset ELSE 0
  IN IF s.marblesSpawned < 18 /\ leadOffset * 10 < s.pathLength * 7
     THEN 3 ELSE 1

\* (0.65 * speedMultiplier * speedFactor * introMultiplier) * timeScale
BaseSpeed(s) ==
  FloorDiv(65 * s.level.speedMultiplier * SpeedFactor(s)
             * IntroMultiplier(s) * TimeScale(s), 100000)

\* (-8.0 * reverseForceMultiplier) * timeScale
ReverseSpeedMax(s) == -((8 * reverseForceMultiplier * TimeScale(s)) \div 10)

\* the forced reverse speed without the time scale
ForcedReverseSpeed_Unscaled(s) == -(4 * reverseForceMultiplier)

\* (-4.0 * reverseForceMultiplier) * timeScale
ForcedReverseSpeed(s) == -((4 * reverseForceMultiplier * TimeScale(s)) \div 10)

\* myTail.color === behindHead.color || either is WILDCARD
ChainMatches(myTail, behindHead) ==
  \/ myTail.color = behindHead.color
  \/ myTail.type = "WILDCARD"
  \/ behindHead.type = "WILDCARD"

\* the base speed given to the chain nearest the core
IsLastChain_First(chains, i) == i = 1

\* the chain that is given the base speed: i === chains.length - 1
IsLastChain(chains, i) == i = Len(chains)

\* gapSize = (myTail.offset - behindHead.offset) - targetGap of chain i,
\* which has a chain behind it
GapSize(marbles, chains, i) ==
  (marbles[chains[i][2]].offset - marbles[chains[i + 1][1]].offset) - Required

\* a pull without the dead zone of half a pixel
Pull_NoDeadZone(gapSize, revMax) ==
  IF gapSize > 0 THEN Min(0, Max(revMax, -gapSize)) ELSE 0

\* if (gapSize > 0.5) Math.min(0, Math.max(reverseSpeedMax, -gapSize)) else 0
Pull(gapSize, revMax) ==
  IF gapSize > 50 THEN Min(0, Max(revMax, -gapSize)) ELSE 0

\* velocity of chain i; marbles holds the offsets already updated for the
\* chains behind it; base, revMax and forced are the speeds of this frame
ChainVelocity(s, marbles, chains, i, base, revMax, forced) ==
  IF s.reverseTimer > 0 THEN forced
  ELSE IF IsLastChain(chains, i) THEN base
  ELSE IF i = Len(chains) THEN 0      \* if (chainBehind) ... else 0
  ELSE IF ChainMatches(marbles[chains[i][2]], marbles[chains[i + 1][1]])
       THEN Pull(GapSize(marbles, chains, i), revMax)
       ELSE 0

\* A pull of -gapSize ends on behindHead.offset + required up to the rounding
\* of (tail - head) - required and of offset += speed: the error of the sum
\* that moves chain i at velocity v is round for such a pull, 0 otherwise
Landing(marbles, chains, i, v, round) ==
  IF v < 0 /\ i < Len(chains)
  THEN (IF v = -GapSize(marbles, chains, i) THEN round ELSE 0)
  ELSE 0

\* chain.forEach(m => { m.speed = v; m.backwards = v < 0; m.offset += v }),
\* the sum rounded err short
MoveChain(marbles, chain, v, err) ==
  [ k \in 1..Len(marbles) |->
      IF chain[1] <= k /\ k <= chain[2]
      THEN [ marbles[k] EXCEPT !.speed = v, !.backwards = (v < 0),
                               !.offset = @ + v - err ]
      ELSE marbles[k] ]

\* chain i moved at velocity v
MovedChain(marbles, chains, i, v, round) ==
  MoveChain(marbles, chains[i], v, Landing(marbles, chains, i, v, round))

\* for (let i = chains.length - 1; i >= 0; i--)
RECURSIVE MoveChains(_, _, _, _, _, _, _, _)
MoveChains(s, marbles, chains, i, base, revMax, forced, round) ==
  IF i < 1 THEN marbles
  ELSE MoveChains(s,
         MovedChain(marbles, chains, i,
                    ChainVelocity(s, marbles, chains, i, base, revMax, forced),
                    round),
         chains, i - 1, base, revMax, forced, round)

\* the store after the velocity integration, observed with the sorted store
\* it started from, its partition and the speeds of the frame
Moved(s, chains, store) ==
  Note([ s EXCEPT !.marbles = store ],
       [ ev |-> "moved", chains |-> chains, before |-> s.marbles,
         store |-> store, base |-> BaseSpeed(s),
         revMax |-> ReverseSpeedMax(s), forced |-> ForcedReverseSpeed(s) ])

\* 2. Physics & Chains: sort, chain partition, velocity integration
Physics(s, round) ==
  LET sorted == SortDesc(s.marbles)
      s1 == [ s EXCEPT !.marbles = sorted ]
      chains == Chains(sorted)
  IN Moved(s1, chains,
           MoveChains(s1, sorted, chains, Len(chains), BaseSpeed(s1),
                      ReverseSpeedMax(s1), ForcedReverseSpeed(s1), round))

\* the pass stopping one pair early: for (let i = length - 1; i > 1; i--)
RECURSIVE Overlap_SkipHead(_, _, _)
Overlap_SkipHead(r, i, reverseTimer) ==
  IF i < 3 THEN r
  ELSE
    LET behind == r.marbles[i]
        ahead == r.marbles[i - 1]
        dist == ahead.offset - behind.offset
    IN IF dist < Required
       THEN Overlap_SkipHead(
              [ marbles |->
                  [ r.marbles EXCEPT
                      ![i - 1] = [ ahead EXCEPT
                         !.offset = behind.offset + Required,
                         !.speed = IF behind.speed > ahead.speed
                                   THEN behind.speed ELSE ahead.speed ] ],
                combo |-> IF ahead.backwards /\ reverseTimer = 0
                          THEN i ELSE r.combo ],
              i - 1, reverseTimer)
       ELSE Overlap_SkipHead(r, i - 1, reverseTimer)

\* overlap resolution: for (let i = length - 1; i > 0; i--); r.combo is
\* comboCheckNeededIndex as a 1-based index, 0 for -1
RECURSIVE Overlap(_, _, _)
Overlap(r, i, reverseTimer) ==
  IF i < 2 THEN r
  ELSE
    LET behind == r.marbles[i]
        ahead == r.marbles[i - 1]
        dist == ahead.offset - behind.offset
    IN IF dist < Required
       THEN Overlap(
              [ marbles |->
                  [ r.marbles EXCEPT
                      ![i - 1] = [ ahead EXCEPT
                         !.offset = behind.offset + Required,
                         !.speed = IF behind.speed > ahead.speed
                                   THEN behind.speed ELSE ahead.speed ] ],
                combo |-> IF ahead.backwards /\ reverseTimer = 0
                          THEN i ELSE r.combo ],
              i - 1, reverseTimer)
       ELSE Overlap(r, i - 1, reverseTimer)

OverlapResolution(s) ==
  Overlap([ marbles |-> s.marbles, combo |-> 0 ], Len(s.marbles),
          s.reverseTimer)

\* the check made on the marble farthest from the core
LossDue_Last(s) ==
  Len(s.marbles) > 0 /\ s.marbles[Len(s.marbles)].offset >= s.pathLength

\* if (head.offset >= pathLengthRef.current) onGameOver(score, false)
LossDue(s) ==
  Len(s.marbles) > 0 /\ s.marbles[1].offset >= s.pathLength

\* the check that never reports
LossCheck_Silent(s) == s

LossCheck(s) ==
  IF LossDue(s)
  THEN Emit(s, [ cb |-> "onGameOver", score |-> s.score, win |-> FALSE ])
  ELSE s


----------------------------------------------------------------------------
(* Projectiles: continuous collision detection                              *)

\* p.x < -50 || p.x > logicalWidth + 50 || p.y < -50 || p.y > logicalHeight + 50
OutOfBounds(s, p) ==
  \/ p.x < -Px(50)
  \/ p.x > Px(s.width) + Px(50)
  \/ p.y < -Px(50)
  \/ p.y > Px(s.height) + Px(50)

\* distSq < hitDistSq
InHitRange(s, p, m) == DistSq(p, MarblePoint(s, m)) < hitDistSq

\* first store index whose marble is within hit distance of p, 0 if none
FirstHit(s, p) ==
  LET hits == { k \in 1..Len(s.marbles) : InHitRange(s, p, s.marbles[k]) }
  IN IF hits = {} THEN 0 ELSE CHOOSE k \in hits : \A j \in hits : k <= j

\* the push without the test of the distance
RECURSIVE PushBack_Always(_, _)
PushBack_Always(marbles, currIdx) ==
  IF currIdx >= Len(marbles) THEN marbles
  ELSE PushBack_Always([ marbles EXCEPT
                           ![currIdx + 1].offset =
                             marbles[currIdx].offset - Required ],
                       currIdx + 1)

\* while (currIdx < length - 1): push the marbles behind the new one back
RECURSIVE PushBack(_, _)
PushBack(marbles, currIdx) ==
  IF currIdx >= Len(marbles) THEN marbles
  ELSE LET c == marbles[currIdx]
           n == marbles[currIdx + 1]
       IN IF c.offset - n.offset < Required
          THEN PushBack([ marbles EXCEPT
                            ![currIdx + 1].offset = c.offset - Required ],
                        currIdx + 1)
          ELSE PushBack(marbles, currIdx + 1)

\* store index and offset of the marble inserted for a hit on index mIdx
InsertIndex(mIdx) == mIdx + 1

\* the offset with the sign of the two radii reversed
InsertOffset_Ahead(m) == m.offset + Required

InsertOffset(m) == m.offset - Required

\* the update without the else branch that resets the streak
StreakAfter_NoReset(comboStreak, matched) ==
  IF matched THEN comboStreak + 1 ELSE comboStreak

\* the update of comboStreak after handleMatches(mIdx + 1, false)
StreakAfter(comboStreak, matched) ==
  IF matched THEN comboStreak + 1 ELSE 0

\* marblesRef.current.splice(mIdx + 1, 0, newMarble) and the push-back
Inserted(s, p, mIdx) ==
  [ s EXCEPT
      !.marbles = PushBack(InsertAt(@, InsertIndex(mIdx),
                                    NewMarble(s.nextId, p.color, "NORMAL",
                                              InsertOffset(s.marbles[mIdx]))),
                           InsertIndex(mIdx)),
      !.nextId = @ + 1 ]

\* the store as handleMatches(mIdx + 1, false) finds it
NoteInserted(s, at) ==
  Note(s, [ ev |-> "inserted", store |-> s.marbles, at |-> at ])

\* if (matched) { comboStreak++; if (comboStreak > 1) addFloatingText }
\* else comboStreak = 0, on the context handleMatches returns
Streak(s) ==
  LET streak == StreakAfter(s.comboStreak, s.ret)
  IN IF s.ret /\ streak > 1
     THEN addFloatingText([ s EXCEPT !.comboStreak = streak ], "STREAK")
     ELSE [ s EXCEPT !.comboStreak = streak ]

\* the normal case of a hit: insertion, push, match, streak
InsertMarble(s, p, mIdx) ==
  Streak(handleMatches(NoteInserted(Inserted(s, p, mIdx), InsertIndex(mIdx)),
                       InsertIndex(mIdx), FALSE))

\* the dispatch with the EMP test moved in front of the pickups
HitEffect_EmpFirst(m, p) ==
  IF m.type = "BOMB" THEN "bomb"
  ELSE IF p.isEmp THEN "emp"
  ELSE IF m.type = "COIN" THEN "coin"
  ELSE IF m.type = "ICE" THEN "ice"
  ELSE "insert"

\* the effect applied for a contact with store index mIdx
HitEffect(m, p) ==
  IF m.type = "BOMB" THEN "bomb"
  ELSE IF m.type = "COIN" THEN "coin"
  ELSE IF m.type = "ICE" THEN "ice"
  ELSE IF p.isEmp THEN "emp"
  ELSE "insert"

\* if (distSq < hitDistSq) { ... }: dispatch on the struck marble
Dispatch(s, p, mIdx) ==
  LET m == s.marbles[mIdx]
      effect == HitEffect(m, p)
  IN IF effect = "bomb" THEN explodeBomb(s, m)
     ELSE IF effect = "coin" THEN collectCoin(s, m)
     ELSE IF effect = "ice" THEN activateIce(s, m)
     ELSE IF effect = "emp"
          THEN addFloatingText(
                 explodeArea(s, [ x |-> p.x, y |-> p.y ],
                             150 * blastRadiusMultiplier),
                 "EXPLOSAO PEM")
     ELSE InsertMarble(s, p, mIdx)

\* projectilesRef.current.splice(i, 1)
RemoveProjectile(s, i) == [ s EXCEPT !.projectiles = Splice(@, i, 1) ]

\* the contact of p with store index mIdx of context s, observed on the
\* context after that the contact leaves
NoteHit(s, after, p, mIdx) ==
  Note(after, [ ev |-> "hit", projectile |-> p, target |-> mIdx,
                effect |-> HitEffect(s.marbles[mIdx], p),
                before |-> s.marbles, after |-> after.marbles,
                shotsBefore |-> Len(s.projectiles),
                shotsAfter |-> Len(after.projectiles),
                streakBefore |-> s.comboStreak,
                streakAfter |-> after.comboStreak,
                matched |-> after.ret ])

\* one contact: the effect, then projectilesRef.current.splice(i, 1)
Contact(s, i, p, mIdx) ==
  NoteHit(s, RemoveProjectile(Dispatch(s, p, mIdx), i), p, mIdx)

\* for (let s = 0; s < steps; s++): the sub-steps left for projectile i
RECURSIVE SubSteps(_, _, _, _, _, _)
SubSteps(s, i, p, stepVx, stepVy, left) ==
  IF left = 0 THEN [ s EXCEPT !.projectiles[i] = p ]
  ELSE
    LET q == [ p EXCEPT !.x = @ + stepVx, !.y = @ + stepVy ] IN
    IF OutOfBounds(s, q)
    THEN Note([ s EXCEPT !.projectiles = Splice(@, i, 1), !.comboStreak = 0 ],
              [ ev |-> "out", projectile |-> q,
                streakBefore |-> s.comboStreak, streakAfter |-> 0 ])
    ELSE LET mIdx == FirstHit(s, q)
         IN IF mIdx # 0 THEN Contact(s, i, q, mIdx)
            ELSE SubSteps(s, i, q, stepVx, stepVy, left - 1)

\* Math.ceil(speed / (MARBLE_RADIUS * 0.8)); the shots fly along an axis
Steps(p) == CeilDiv(Abs(p.vx) + Abs(p.vy), MARBLE_RADIUS * 80)

\* the body of the projectile loop for projectile i
MoveProjectile(s, i) ==
  LET p == s.projectiles[i]
      steps == Steps(p)
  IN SubSteps([ s EXCEPT !.ret = FALSE ], i, p, p.vx \div steps,
              p.vy \div steps, steps)

\* for (let i = projectiles.length - 1; i >= 0; i--)
RECURSIVE Projectiles(_, _)
Projectiles(s, i) ==
  IF i < 1 THEN s ELSE Projectiles(MoveProjectile(s, i), i - 1)

----------------------------------------------------------------------------
(* Decay of the cosmetic stores, reporting                                  *)

\* the decay that never removes a particle
DecayParticles_Keep(q) == [ k \in 1..Len(q) |-> Max(q[k] - 5, 1) ]

\* part.life -= 0.05; if (part.life <= 0) splice
RECURSIVE DecayParticles(_)
DecayParticles(q) ==
  IF q = << >> THEN << >>
  ELSE IF q[1] - 5 <= 0 THEN DecayParticles(Tail(q))
  ELSE << q[1] - 5 >> \o DecayParticles(Tail(q))

\* txt.life -= 0.02; if (txt.life <= 0) splice
RECURSIVE DecayTexts(_)
DecayTexts(q) ==
  IF q = << >> THEN << >>
  ELSE IF q[1].life - 2 <= 0 THEN DecayTexts(Tail(q))
  ELSE << [ q[1] EXCEPT !.life = @ - 2 ] >> \o DecayTexts(Tail(q))

\* Math.max(0, 100 - (remaining / total * 100)), in units of 1/total percent
CurrentProgress(s) ==
  LET total == s.level.spawnCount
      remaining == total - s.marblesSpawned + Len(s.marbles)
  IN Max(0, 100 * total - remaining * 100)

\* the progress report with a threshold of at least 0.5
ReportProgress_AtLeast(s, cur) ==
  IF 2 * Abs(cur - s.lastReportedProgress) >= s.level.spawnCount
  THEN Emit([ s EXCEPT !.lastReportedProgress = cur ],
            [ cb |-> "onProgressUpdate", pct |-> cur ])
  ELSE s

\* the progress report with a threshold of 1.0
ReportProgress_Coarse(s, cur) ==
  IF Abs(cur - s.lastReportedProgress) > s.level.spawnCount
  THEN Emit([ s EXCEPT !.lastReportedProgress = cur ],
            [ cb |-> "onProgressUpdate", pct |-> cur ])
  ELSE s

\* if (Math.abs(currentProgress - lastReportedProgress) > 0.5) { ... }
ReportProgress(s, cur) ==
  IF 2 * Abs(cur - s.lastReportedProgress) > s.level.spawnCount
  THEN Emit([ s EXCEPT !.lastReportedProgress = cur ],
            [ cb |-> "onProgressUpdate", pct |-> cur ])
  ELSE s

\* if (scoreRef.current !== lastReportedScoreRef.current) { ... }
ReportScore(s) ==
  IF s.score # s.lastReportedScore
  THEN Emit([ s EXCEPT !.lastReportedScore = s.score ],
            [ cb |-> "onScoreUpdate", score |-> s.score ])
  ELSE s

\* the reporting block after the render: if (!isPaused) { ... }
Report(s) == ReportScore(ReportProgress(s, CurrentProgress(s)))

\* the timers decremented without the test for a positive value
Timers_Unguarded(s) ==
  [ s EXCEPT !.frameCount = @ + 1,
             !.slowMoTimer = @ - 1,
             !.reverseTimer = @ - 1 ]

\* frameCount++; the timers count down
Timers(s) ==
  [ s EXCEPT !.frameCount = @ + 1,
             !.slowMoTimer = IF @ > 0 THEN @ - 1 ELSE @,
             !.reverseTimer = IF @ > 0 THEN @ - 1 ELSE @ ]

\* if (comboCheckNeededIndex !== -1) handleMatches(index, true)
ComboCheck(s, combo) ==
  IF combo # 0 THEN handleMatches(s, combo, TRUE) ELSE s

\* the store the overlap pass ov leaves, then the combo check
ResolvedWith(s, ov) ==
  ComboCheck(Note([ s EXCEPT !.marbles = ov.marbles ],
                  [ ev |-> "resolved", store |-> ov.marbles,
                    combo |-> ov.combo ]),
             ov.combo)

Resolved(s) == ResolvedWith(s, OverlapResolution(s))

\* the loss check, on the store it reads
Checked(s) ==
  LossCheck(Note(s, [ ev |-> "checked", store |-> s.marbles,
                      score |-> s.score ]))

ProjectileLoop(s) == Projectiles(s, Len(s.projectiles))

\* the decay loops of particles and floating texts
Decay(s) ==
  [ s EXCEPT !.particles = DecayParticles(@),
             !.floatingTexts = DecayTexts(@) ]

\* the logic block of an unpaused frame, with the stores observed after
\* the overlap resolution and at the end of the frame
Logic(s, color, rnd, round) ==
  Report(Decay(ProjectileLoop(Checked(Resolved(
    Physics(Spawning(Timers(s), color, rnd), round))))))


----------------------------------------------------------------------------
(* State                                                                    *)

VARIABLES
  sim,          \* the refs of GameCanvas: field X is XRef.current
  frameCount,   \* frameCountRef.current
  levelConfig,  \* the levelConfig prop
  isPaused,     \* the isPaused prop (App state)
  inventory,    \* playerState.inventory of the host, per powerup type
  screen,       \* App screen: "PLAYING", "VICTORY" or "GAME_OVER"
  mounted,      \* GameCanvas is mounted and its animation frame is scheduled
  events,       \* host callbacks invoked by the last handler, in order
  log,          \* observations made inside the last handler, in order
  session,      \* frame cap, inputs (clicks, powerups, resizes) left, rolls
  call          \* input and result of a function applied on its own

vars ==
  << sim, frameCount, levelConfig, isPaused, inventory, screen, mounted, events, log,
     session, call >>

SimFields ==
  { "marbles", "projectiles", "particles", "floatingTexts", "score",
    "credits", "slowMoTimer", "reverseTimer", "empNextShot",
    "comboStreak", "marblesSpawned", "nextMarbleColor",
    "currentShooterColor", "pathPoints", "pathLength", "width", "height",
    "lastReportedScore", "lastReportedProgress", "nextId" }

\* the context a handler starts with
Context(sm, frames, level) ==
  [ marbles |-> sm.marbles, projectiles |-> sm.projectiles,
    particles |-> sm.particles, floatingTexts |-> sm.floatingTexts,
    score |-> sm.score, credits |-> sm.credits,
    frameCount |-> frames, slowMoTimer |-> sm.slowMoTimer,
    reverseTimer |-> sm.reverseTimer, empNextShot |-> sm.empNextShot,
    comboStreak |-> sm.comboStreak, marblesSpawned |-> sm.marblesSpawned,
    nextMarbleColor |-> sm.nextMarbleColor,
    currentShooterColor |-> sm.currentShooterColor,
    pathPoints |-> sm.pathPoints, pathLength |-> sm.pathLength,
    width |-> sm.width, height |-> sm.height,
    lastReportedScore |-> sm.lastReportedScore,
    lastReportedProgress |-> sm.lastReportedProgress,
    nextId |-> sm.nextId,
    level |-> level, events |-> << >>, log |-> << >>, ret |-> FALSE ]

Ctx == Context(sim, frameCount, levelConfig)

\* the refs a handler leaves behind
Refs(s) == [ f \in SimFields |-> s[f] ]

\* the effect initialising a level: resize(), then the resets
LevelStart(viewport, shooterColor, nextColor) ==
  LET points == generatePathPoints(viewport[1], viewport[2]) IN
  [ marbles |-> << >>, projectiles |-> << >>, particles |-> << >>,
    floatingTexts |-> << >>, score |-> 0, credits |-> 0,
    slowMoTimer |-> 0, reverseTimer |-> 0, empNextShot |-> FALSE,
    comboStreak |-> 0, marblesSpawned |-> 0,
    nextMarbleColor |-> nextColor, currentShooterColor |-> shooterColor,
    pathPoints |-> points, pathLength |-> getPathLength(points),
    width |-> viewport[1], height |-> viewport[2],
    lastReportedScore |-> 0, lastReportedProgress |-> 0, nextId |-> 1 ]

\* playerState.inventory when the level starts
InitialInventory == [ EMP |-> 1, SLOW |-> 1, REVERSE |-> 1 ]

NoCall == [ op |-> "none" ]

\* a session of a level in a viewport; shooters are the colours drawn for
\* the shooter, ses the frames, inputs and spawn rolls of the session
Start(level, viewport, shooters, ses) ==
  /\ \E c1 \in shooters, c2 \in shooters :
       sim = LevelStart(viewport, c1, c2)
  /\ levelConfig = level
  /\ frameCount = 0
  /\ isPaused = FALSE
  /\ inventory = InitialInventory
  /\ screen = "PLAYING"
  /\ mounted = TRUE
  /\ events = << >>
  /\ log = << >>
  /\ session = ses
  /\ call = NoCall

Init ==
  Start(Level(2), << 80, 100 >>, Colors,
        [ frames |-> MaxFrames, inputs |-> 1, rolls |-> Rolls ])

----------------------------------------------------------------------------
(* Host callbacks                                                           *)

\* handleGameOver(finalScore, win): the screen after the callbacks of evs
RECURSIVE ScreenAfter(_, _)
ScreenAfter(scr, evs) ==
  IF evs = << >> THEN scr
  ELSE ScreenAfter(IF evs[1].cb = "onGameOver"
                   THEN (IF evs[1].win THEN "VICTORY" ELSE "GAME_OVER")
                   ELSE scr,
                   Tail(evs))

\* handleGameOver calls setIsPaused(false)
PausedAfter(paused, evs) ==
  IF \E k \in 1..Len(evs) : evs[k].cb = "onGameOver" THEN FALSE ELSE paused

----------------------------------------------------------------------------
(* Actions                                                                  *)

\* the quota is spawned and the store is empty, no win is signalled yet:
\* the session is observed for session.frames frames, and for the frames
\* the particles of the last match take to decay
WinPending ==
  /\ sim.marblesSpawned >= levelConfig.spawnCount
  /\ sim.marbles = << >>
  /\ screen # "VICTORY"
  /\ ~isPaused

\* the loop is scheduled and the session is still observed
FrameDue ==
  /\ mounted
  /\ \/ frameCount < session.frames
     \/ WinPending /\ frameCount < session.frames + WinGrace

\* a pause gate that lets particles and floating texts decay
Gated_DecayPaused(s, paused, color, rnd, round) ==
  IF paused THEN Note(Decay(s), [ ev |-> "paused" ])
  ELSE Logic(s, color, rnd, round)

\* if (!isPaused) { logic block } ... if (!isPaused) { report block }:
\* a paused frame only renders, which is observed as "paused"
Gated(s, paused, color, rnd, round) ==
  IF paused THEN Note(s, [ ev |-> "paused" ])
  ELSE Logic(s, color, rnd, round)

\* animate(time): one animation frame; color and rnd are the values drawn
\* from Math.random() when the frame spawns a marble, round the rounding of
\* a closing pull
animate(color, rnd, round) ==
  /\ FrameDue
  /\ \E s \in { Gated(Ctx, isPaused, color, rnd, round) } :
       /\ sim' = Refs(s)
       /\ frameCount' = s.frameCount
       /\ events' = s.events
       /\ log' = s.log
       /\ screen' = ScreenAfter(screen, s.events)
       /\ isPaused' = PausedAfter(isPaused, s.events)
  /\ UNCHANGED << levelConfig, inventory, mounted, session, call >>

\* the frames the scheduler runs: Math.random() is drawn only by a spawn
Frame ==
  \E draws \in { ~isPaused /\ SpawnDue(Ctx) } :
    \E color \in IF draws THEN levelConfig.colors
                  ELSE { CHOOSE c \in levelConfig.colors : TRUE },
       rnd \in IF draws THEN session.rolls ELSE { CHOOSE r \in Rolls : TRUE },
       round \in Roundings :
      animate(color, rnd, round)

\* swapColors()
swapColors(s) ==
  [ s EXCEPT !.currentShooterColor = s.nextMarbleColor,
             !.nextMarbleColor = s.currentShooterColor ]

\* the projectile pushed by handleClick for an aim (cos, sin)
Shot(s, aim) ==
  [ x |-> Px(s.width) \div 2 + aim[1] * Px(30),
    y |-> Px(s.height) \div 2 + aim[2] * Px(30),
    vx |-> aim[1] * Px(projectileSpeed),
    vy |-> aim[2] * Px(projectileSpeed),
    color |-> s.currentShooterColor,
    isEmp |-> s.empNextShot ]

\* handleClick(e) for a click farther than 60px from the centre
Fire(s, aim, nextColor) ==
  LET s1 == [ s EXCEPT !.projectiles = Append(@, Shot(s, aim)) ] IN
  IF s.empNextShot
  THEN [ s1 EXCEPT !.empNextShot = FALSE ]
  ELSE [ s1 EXCEPT !.currentShooterColor = s.nextMarbleColor,
                   !.nextMarbleColor = nextColor ]

\* handleClick(e): mousedown / touchstart away from the centre
handleClick(aim, nextColor) ==
  /\ mounted
  /\ session.inputs > 0
  /\ \E s \in { IF isPaused THEN Ctx ELSE Fire(Ctx, aim, nextColor) } :
       /\ sim' = Refs(s)
       /\ events' = s.events
  /\ log' = << [ ev |-> "click" ] >>
  /\ session' = [ session EXCEPT !.inputs = @ - 1 ]
  /\ UNCHANGED << frameCount, levelConfig, isPaused, inventory, screen, mounted, call >>

\* handleKeyDown(Space) / handleContextMenu / click within 60px of the centre
handleKeyDown ==
  /\ mounted
  /\ sim' = IF isPaused THEN sim ELSE Refs(swapColors(Ctx))
  /\ events' = << >>
  /\ log' = << [ ev |-> "swap" ] >>
  /\ UNCHANGED << frameCount, levelConfig, isPaused, inventory, screen, mounted, session,
                  call >>

\* triggerPowerup(type) of the GameCanvas ref
triggerPowerup(s, type) ==
  IF type = "EMP"
  THEN Emit(addFloatingText([ s EXCEPT !.empNextShot = TRUE ], "PEM ARMADO"),
            [ cb |-> "onPowerupUsed", type |-> type ])
  ELSE IF type = "SLOW"
  THEN Emit(addFloatingText([ s EXCEPT !.slowMoTimer = 600 ],
                            "DILATACAO TEMPORAL"),
            [ cb |-> "onPowerupUsed", type |-> type ])
  ELSE IF type = "REVERSE"
  THEN Emit(addFloatingText([ s EXCEPT !.reverseTimer = 180 ],
                            "SISTEMA REVERSO"),
            [ cb |-> "onPowerupUsed", type |-> type ])
  ELSE s

\* handlePowerupConsumed(type) for every onPowerupUsed of evs
RECURSIVE InventoryAfter(_, _)
InventoryAfter(inv, evs) ==
  IF evs = << >> THEN inv
  ELSE InventoryAfter(IF evs[1].cb = "onPowerupUsed"
                      THEN [ inv EXCEPT ![evs[1].type] = @ - 1 ]
                      ELSE inv,
                      Tail(evs))

\* usePowerup without the inventory test
Activation_Unowned(s, paused, inv, type) ==
  IF ~paused THEN triggerPowerup(s, type) ELSE s

\* if (!isPaused && playerState.inventory[type] > 0) triggerPowerup(type)
Activation(s, paused, inv, type) ==
  IF ~paused /\ inv[type] > 0 THEN triggerPowerup(s, type) ELSE s

\* usePowerup(type) of the host: the powerup button
usePowerup(type) ==
  /\ mounted
  /\ session.inputs > 0
  /\ \E s \in { Activation(Ctx, isPaused, inventory, type) } :
       /\ sim' = Refs(s)
       /\ events' = s.events
       /\ inventory' = InventoryAfter(inventory, s.events)
  /\ log' = << [ ev |-> "usePowerup", type |-> type ] >>
  /\ session' = [ session EXCEPT !.inputs = @ - 1 ]
  /\ UNCHANGED << frameCount, levelConfig, isPaused, screen, mounted, call >>

\* the resize that regenerates the path and leaves the offsets as they are
Rescale_Keep(s, viewport) ==
  [ s EXCEPT !.pathPoints = generatePathPoints(viewport[1], viewport[2]),
             !.pathLength =
               getPathLength(generatePathPoints(viewport[1], viewport[2])),
             !.width = viewport[1], !.height = viewport[2] ]

\* resize(): the window resize listener
Rescale(s, viewport) ==
  LET oldLength == s.pathLength
      points == generatePathPoints(viewport[1], viewport[2])
      newLength == getPathLength(points)
      s1 == [ s EXCEPT !.pathPoints = points, !.pathLength = newLength,
                       !.width = viewport[1], !.height = viewport[2] ]
  IN IF oldLength > 0 /\ newLength > 0 /\ Len(s.marbles) > 0
     THEN [ s1 EXCEPT !.marbles =
              [ k \in 1..Len(s.marbles) |->
                  [ s.marbles[k] EXCEPT
                      !.offset = FloorDiv(@ * newLength, oldLength) ] ] ]
     ELSE s1

resize(viewport) ==
  /\ mounted
  /\ session.inputs > 0
  /\ viewport # << sim.width, sim.height >>
  /\ sim' = Refs(Rescale(Ctx, viewport))
  /\ events' = << >>
  /\ log' = << [ ev |-> "resize", before |-> sim.marbles,
                 oldLength |-> sim.pathLength ] >>
  /\ session' = [ session EXCEPT !.inputs = @ - 1 ]
  /\ UNCHANGED << frameCount, levelConfig, isPaused, inventory, screen, mounted, call >>

\* togglePause() of the host
togglePause ==
  /\ mounted
  /\ screen = "PLAYING"
  /\ isPaused' = ~isPaused
  /\ events' = << >>
  /\ log' = << >>
  /\ UNCHANGED << sim, frameCount, levelConfig, inventory, screen, mounted, session,
                  call >>

\* the host leaves the PLAYING screen: GameCanvas unmounts, the loop stops
unmount ==
  /\ mounted
  /\ screen # "PLAYING"
  /\ mounted' = FALSE
  /\ events' = << >>
  /\ log' = << >>
  /\ UNCHANGED << sim, frameCount, levelConfig, isPaused, inventory, screen, session,
                  call >>

Next ==
  \/ Frame
  \/ \E aim \in Aims, nextColor \in levelConfig.colors :
       handleClick(aim, nextColor)
  \/ handleKeyDown
  \/ \E type \in PowerupTypes : usePowerup(type)
  \/ \E viewport \in Viewports : resize(viewport)
  \/ togglePause
  \/ unmount

Spec == Init /\ [][Next]_vars

\* a session without player or host input
NextQuiet ==
  \/ Frame
  \/ unmount

InitQuiet ==
  Start(Level(3), << 120, 100 >>, { "CYAN" },
        [ frames |-> QuietFrames, inputs |-> 0, rolls |-> PlainRolls ])

SpecQuiet == InitQuiet /\ [][NextQuiet]_vars

\* a step that runs the logic block of a frame: it advances frameCount.
\* requestAnimationFrame(animate) at the end of every frame keeps the loop
\* scheduled, so such steps keep happening while they are possible.
Tick ==
  /\ FrameDue
  /\ ~isPaused
  /\ frameCount' = frameCount + 1

FairQuiet == SpecQuiet /\ WF_frameCount(Tick)

\* a session in which the player only shoots
NextPlay ==
  \/ Frame
  \/ \E aim \in Aims, nextColor \in levelConfig.colors :
       handleClick(aim, nextColor)
  \/ unmount

InitPlay ==
  Start(Level(2), << 80, 100 >>, Colors,
        [ frames |-> PlayFrames, inputs |-> 1, rolls |-> PlainRolls ])

SpecPlay == InitPlay /\ [][NextPlay]_vars

FairPlay == SpecPlay /\ WF_frameCount(Tick)

----------------------------------------------------------------------------
(* handleMatches applied on its own to a store drawn from MatchKinds        *)

\* a resolved store of the marbles kinds[1..n]: sorted, adjacent at 2 radii
StoreOf(kinds, headOffset) ==
  [ k \in 1..Len(kinds) |->
      NewMarble(k, kinds[k][1], kinds[k][2],
                headOffset - (k - 1) * Required) ]

MatchStores(maxLen) ==
  UNION { { StoreOf(kinds, (n - 1) * Required) : kinds \in [ 1..n -> MatchKinds ] }
          : n \in 1..maxLen }

InitMatch ==
  /\ \E store \in MatchStores(MaxLen) :
       /\ sim = [ LevelStart(<< 200, 100 >>, "CYAN", "CYAN") EXCEPT
                   !.marbles = store, !.marblesSpawned = Len(store),
                   !.nextId = Len(store) + 1 ]
       /\ levelConfig = Level(Len(store))
       /\ \E idx \in 1..Len(store), isCombo \in BOOLEAN :
            call = [ op |-> "handleMatches", idx |-> idx, isCombo |-> isCombo,
                     before |-> store, ret |-> FALSE, done |-> FALSE ]
  /\ frameCount = 0
  /\ isPaused = FALSE
  /\ inventory = InitialInventory
  /\ screen = "PLAYING"
  /\ mounted = TRUE
  /\ events = << >>
  /\ log = << >>
  /\ session = [ frames |-> 0, inputs |-> 0, rolls |-> Rolls ]

\* handleMatches(idx, isCombo) on the drawn store
applyHandleMatches ==
  /\ call.op = "handleMatches"
  /\ ~call.done
  /\ \E s \in { handleMatches(Ctx, call.idx, call.isCombo) } :
       /\ sim' = Refs(s)
       /\ events' = s.events
       /\ log' = s.log
       /\ call' = [ call EXCEPT !.ret = s.ret, !.done = TRUE ]
  /\ UNCHANGED << frameCount, levelConfig, isPaused, inventory, screen, mounted, session >>

NextMatch == applyHandleMatches

SpecMatch == InitMatch /\ [][NextMatch]_vars

\* the call of handleMatches has returned
MatchDone == call.op = "handleMatches" /\ call.done

\* the marble at index k of store q continues the run of the pivot at idx:
\* it has the pivot's colour or is a WILDCARD
InRunColour(q, idx, k) ==
  q[k].color = q[idx].color \/ q[k].type = "WILDCARD"

\* R: the maximal contiguous index range around idx of such marbles
RunOf(q, idx) ==
  { k \in 1..Len(q) :
      \A j \in 1..Len(q) :
        ((k <= j /\ j <= idx) \/ (idx <= j /\ j <= k)) => InRunColour(q, idx, j) }

\* the marbles of q whose index is outside R, in their order
RECURSIVE Without(_, _, _)
Without(q, R, k) ==
  IF k > Len(q) THEN << >>
  ELSE IF k \in R THEN Without(q, R, k + 1)
  ELSE << q[k] >> \o Without(q, R, k + 1)

\* C3: match run semantics.  For a NORMAL pivot whose run R (maximal range
\* around the pivot of marbles of the pivot's colour or WILDCARD) holds no
\* trigger-type marble: if |R| >= 3 handleMatches removes exactly the marbles
\* of R, keeps the others in order and returns true; if |R| < 3 it removes
\* nothing and returns false.
C3_MatchRun ==
  MatchDone =>
    LET q == call.before
        R == RunOf(q, call.idx)
    IN (q[call.idx].type = "NORMAL"
        /\ \A k \in R : q[k].type \notin TriggerTypes)
       => IF Cardinality(R) >= 3
          THEN sim.marbles = Without(q, R, 1) /\ call.ret
          ELSE sim.marbles = q /\ ~call.ret

\* the colours of a store
ColoursOf(q) == [ k \in 1..Len(q) |-> q[k].color ]

\* [A,B,B,B,C] with the pivot on the first B lost exactly the three Bs
C3_Witness ==
  /\ MatchDone
  /\ \A k \in 1..Len(call.before) : call.before[k].type = "NORMAL"
  /\ ColoursOf(call.before)
       = << "CYAN", "MAGENTA", "MAGENTA", "MAGENTA", "YELLOW" >>
  /\ call.idx = 2
  /\ ColoursOf(sim.marbles) = << "CYAN", "YELLOW" >>
  /\ call.ret

\* the types of a store
TypesOf(q) == [ k \in 1..Len(q) |-> q[k].type ]

\* the store is [A, WILDCARD, A] with both A NORMAL of one colour
IsBridge(q) ==
  /\ Len(q) = 3
  /\ TypesOf(q) = << "NORMAL", "WILDCARD", "NORMAL" >>
  /\ q[1].color = q[3].color

\* C4: wildcard bridging.  For the store [A, WILDCARD, A], whatever the
\* colour assigned to the WILDCARD and whichever of the three marbles is the
\* pivot, handleMatches removes all three marbles and returns true.
C4_WildcardBridge ==
  (MatchDone /\ IsBridge(call.before)) => (sim.marbles = << >> /\ call.ret)

\* [A, WILDCARD, A] with the pivot on the WILDCARD, whose own colour is not A
C4_Witness ==
  /\ MatchDone
  /\ IsBridge(call.before)
  /\ call.before[2].color # call.before[1].color
  /\ call.idx = 2
  /\ sim.marbles = << >>

----------------------------------------------------------------------------
(* The projectile loop applied on its own to a store drawn from HitKinds    *)

\* a resolved store with the given kinds, head offset and gaps
RECURSIVE SpacedStore(_, _, _, _)
SpacedStore(kinds, gaps, k, offset) ==
  IF k > Len(kinds) THEN << >>
  ELSE << NewMarble(k, kinds[k][1], kinds[k][2], offset) >>
       \o SpacedStore(kinds, gaps, k + 1,
                      IF k <= Len(gaps) THEN offset - gaps[k] ELSE offset)

HitStores(maxStore) ==
  { << >> } \cup
  UNION { { SpacedStore(kinds, gaps, 1, head) :
              kinds \in [ 1..n -> HitKinds ], gaps \in [ 1..(n - 1) -> Gaps ],
              head \in HeadOffsets }
          : n \in 1..maxStore }

InitHit ==
  /\ \E store \in HitStores(MaxStore), aim \in Aims, color \in Colors,
        isEmp \in BOOLEAN, streak \in Streaks :
       LET s0 == [ LevelStart(<< 300, 100 >>, color, color) EXCEPT
                     !.marbles = store, !.marblesSpawned = Len(store),
                     !.nextId = Len(store) + 1, !.comboStreak = streak,
                     !.empNextShot = isEmp ]
       IN /\ sim = [ s0 EXCEPT !.projectiles = << Shot(s0, aim) >>,
                               !.empNextShot = FALSE ]
          /\ levelConfig = Level(Len(store))
  /\ call = [ op |-> "projectiles", frames |-> 0 ]
  /\ frameCount = 0
  /\ isPaused = FALSE
  /\ inventory = InitialInventory
  /\ screen = "PLAYING"
  /\ mounted = TRUE
  /\ events = << >>
  /\ log = << >>
  /\ session = [ frames |-> 0, inputs |-> 0, rolls |-> Rolls ]

\* the projectile loop of one frame on the drawn store
applyProjectiles ==
  /\ call.op = "projectiles"
  /\ Len(sim.projectiles) > 0
  /\ \E s \in { Projectiles(Ctx, Len(sim.projectiles)) } :
       /\ sim' = Refs(s)
       /\ events' = s.events
       /\ log' = s.log
  /\ call' = [ call EXCEPT !.frames = @ + 1 ]
  /\ UNCHANGED << frameCount, levelConfig, isPaused, inventory, screen, mounted, session >>

NextHit == applyProjectiles

SpecHit == InitHit /\ [][NextHit]_vars

\* indices of the entries of kind ev in an observation log
Entries(lg, ev) == { k \in 1..Len(lg) : lg[k].ev = ev }

\* entry k of lg is a contact that inserted a marble
IsInsertion(lg, k) ==
  lg[k].ev = "hit" /\ k > 1 /\ lg[k - 1].ev = "inserted"

\* the ids of a store, in order
Ids(q) == [ k \in 1..Len(q) |-> q[k].id ]

\* marble m lies within radius of the point pt
Within(pt, m, radius) ==
  DistSq(pt, getPointAtDistance(m.offset, sim.pathPoints, sim.pathLength))
    < radius * radius

\* the marbles of q farther than radius from pt, in their order
Survivors(q, pt, radius) ==
  Without(q, { k \in 1..Len(q) : Within(pt, q[k], radius) }, 1)

\* the comboStreak step observed in the log lg of a frame
StreakStep(lg, before, after) ==
  /\ \A k \in Entries(lg, "out") : after = 0
  /\ \A k \in Entries(lg, "hit") :
       IF IsInsertion(lg, k)
       THEN after = IF Len(lg[k].after) < Len(lg[k - 1].store)
                    THEN before + 1 ELSE 0
       ELSE after = before
  /\ (after < before) => (after = 0)

C10_Dispatch ==
  /\ Cardinality(Entries(log, "hit")) <= 1
  /\ \A k \in Entries(log, "hit") :
       LET e == log[k]
           p == e.projectile
           q == e.before
           inRange == { j \in 1..Len(q) : Within(p, q[j], MARBLE_RADIUS * 180) }
           m == q[e.target]
       IN /\ e.target \in inRange
          /\ \A j \in inRange : e.target <= j
          /\ e.shotsAfter = e.shotsBefore - 1
          /\ IF m.type = "BOMB"
             THEN e.after = Survivors(q, getPointAtDistance(m.offset,
                                           sim.pathPoints, sim.pathLength),
                                      Px(100))
             ELSE IF m.type \in { "COIN", "ICE" }
             THEN e.after = Without(q, { e.target }, 1)
             ELSE IF p.isEmp
             THEN e.after = Survivors(q, p, Px(150))
             ELSE /\ IsInsertion(log, k)
                  /\ LET st == log[k - 1].store
                         at == log[k - 1].at
                     IN /\ at = e.target + 1
                        /\ st[at].color = p.color
                        /\ st[at].type = "NORMAL"
                        /\ st[at].offset = m.offset - 2 * Px(MARBLE_RADIUS)
                        /\ Ids(Without(st, { at }, 1)) = Ids(q)
                        /\ \A j \in 1..e.target : st[j] = q[j]

\* a shot reached two marbles at once and inserted behind the one that is
\* first in the store, although the second is nearer
C10_Witness ==
  /\ call.op = "projectiles"
  /\ \E k \in Entries(log, "hit") :
       /\ IsInsertion(log, k)
       /\ log[k].target = 1
       /\ Len(log[k].before) >= 2
       /\ Within(log[k].projectile, log[k].before[2], MARBLE_RADIUS * 180)
       /\ DistSq(log[k].projectile,
                 getPointAtDistance(log[k].before[2].offset, sim.pathPoints,
                                    sim.pathLength))
            < DistSq(log[k].projectile,
                     getPointAtDistance(log[k].before[1].offset,
                                        sim.pathPoints, sim.pathLength))

----------------------------------------------------------------------------
(* The frame loop                                                           *)

\* adjacent marbles of q are at least two radii apart
NoOverlap(q) ==
  \A k \in 1..(Len(q) - 1) :
    q[k].offset - q[k + 1].offset >= 2 * Px(MARBLE_RADIUS)

\* the last step was an unpaused frame
FrameRan == Entries(log, "resolved") # {}

\* C1: no-overlap invariant.  At the end of the overlap-resolution pass of
\* every unpaused tick, and still at the end of that frame after its match
\* removals and projectile insertions, adjacent marbles of the store are at
\* least 2 * MARBLE_RADIUS apart.
C1_NoOverlap ==
  /\ \A k \in Entries(log, "resolved") : NoOverlap(log[k].store)
  /\ FrameRan => NoOverlap(sim.marbles)

\* a frame resolved a store of two marbles and then inserted a third one
\* that completed no match
C1_Witness ==
  /\ \E k \in Entries(log, "resolved") : Len(log[k].store) = 2
  /\ Entries(log, "inserted") # {}
  /\ Len(sim.marbles) = 3

\* q is ordered by descending offset
Sorted(q) ==
  \A k \in 1..(Len(q) - 1) : q[k].offset >= q[k + 1].offset

\* C2: sorted-store invariant.  After the physics pass of every unpaused
\* tick (sort, velocity integration, overlap resolution), and still at the
\* end of that frame, the store is ordered by descending offset, index 0
\* the marble closest to the core.
C2_Sorted ==
  /\ \A k \in Entries(log, "resolved") : Sorted(log[k].store)
  /\ FrameRan => Sorted(sim.marbles)

\* a frame ended with a marble inserted between two others
C2_Witness ==
  /\ FrameRan
  /\ \E k \in Entries(log, "inserted") :
       /\ log[k].at = 2
       /\ Len(log[k].store) = 3
  /\ Len(sim.marbles) = 3

\* the outcomes signalled by the callbacks evs: win or loss
GameOvers(evs, win) ==
  { k \in 1..Len(evs) : evs[k].cb = "onGameOver" /\ evs[k].win = win }

\* the store observed after overlap resolution and combo match has its
\* core-most marble at or past the end of the path
HeadAtEnd(lg, pathLength) ==
  \E k \in Entries(lg, "checked") :
    /\ Len(lg[k].store) > 0
    /\ lg[k].store[1].offset >= pathLength

\* C5: loss check.  A tick signals onGameOver(score, false) if and only if
\* it is unpaused and, after its overlap resolution and optional combo
\* match, the store is non-empty with the core-most offset >= the path
\* length; a paused frame never signals it.
C5_LossCheck ==
  [][ /\ (GameOvers(events', FALSE) # {}) <=> HeadAtEnd(log', sim'.pathLength)
      /\ isPaused => GameOvers(events', FALSE) = {} ]_vars

\* a loss was signalled for a store of two marbles
C5_Witness ==
  /\ GameOvers(events, FALSE) # {}
  /\ \E k \in Entries(log, "checked") : Len(log[k].store) = 2

\* C7: win check safety.  A tick signals onGameOver(score, true) only if it
\* is unpaused and started with the quota spawned, an empty marble store
\* and an empty particle store; no tick signals both a win and a loss.
C7_WinSafety ==
  [][ (GameOvers(events', TRUE) # {}) =>
        /\ ~isPaused
        /\ sim.marblesSpawned >= levelConfig.spawnCount
        /\ sim.marbles = << >>
        /\ sim.particles = << >>
        /\ GameOvers(events', FALSE) = {} ]_vars

\* a win was signalled after a match had scored
C7_Witness ==
  /\ GameOvers(events, TRUE) # {}
  /\ sim.score > 0
  /\ sim.particles = << >>

\* an outcome is signalled, carrying the score accumulated so far
Signalled(win) ==
  \E k \in GameOvers(events, win) : events[k].score = sim.score

\* C6 as claimed: without player action a LOSS is eventually signalled
C6_LossEventually == <>Signalled(FALSE)

\* C6: loss liveness.  With frames stepped unpaused and no player action an
\* outcome is eventually signalled, carrying the score accumulated so far:
\* a LOSS, unless physics-driven combo matches have removed every spawned
\* marble, in which case it is a WIN.
C6_OutcomeEventually == <>(Signalled(FALSE) \/ Signalled(TRUE))

\* without player action three marbles were spawned and a loss was signalled
C6_Witness ==
  /\ session.inputs = 0
  /\ call = NoCall
  /\ sim.marblesSpawned = 3
  /\ Signalled(FALSE)

\* the quota is spawned, the store is empty and the loop is running
Cleared ==
  /\ mounted
  /\ sim.marblesSpawned >= levelConfig.spawnCount
  /\ sim.marbles = << >>

\* C8: win liveness.  Once the quota is spawned and the store is empty, a
\* WIN is eventually signalled as long as the loop keeps stepping frames
\* (the host has not stopped it).
C8_WinEventually == Cleared ~> (GameOvers(events, TRUE) # {} \/ ~mounted)

\* a win was signalled after the particles of the clearing match decayed
C8_Witness ==
  /\ Cleared
  /\ GameOvers(events, TRUE) # {}
  /\ sim.score > 0
  /\ frameCount > WinGrace


----------------------------------------------------------------------------
(* Resizes of a populated level                                             *)

\* largest store a resize session starts with
MaxResizeStore == 3

\* the viewports of a resize session: it starts in the first
ResizeViewports == { << 120, 100 >>, << 60, 100 >>, << 150, 100 >> }

\* offsets of the core-most marble and gaps of the stores of such a session
ResizeHeads == { Px(110), Px(60) }

ResizeGaps == { Px(MARBLE_RADIUS * 2), Px(40) }

ResizeStores(maxStore) ==
  { << >> } \cup
  UNION { { SpacedStore([ k \in 1..n |-> << "CYAN", "NORMAL" >> ], gaps, 1,
                        head) :
              gaps \in [ 1..(n - 1) -> ResizeGaps ], head \in ResizeHeads }
          : n \in 1..maxStore }

\* a level in play: the quota is spawned, the store is resolved
InitResize ==
  /\ \E store \in ResizeStores(MaxResizeStore) :
       /\ sim = [ LevelStart(<< 120, 100 >>, "CYAN", "MAGENTA") EXCEPT
                    !.marbles = store, !.marblesSpawned = Len(store),
                    !.nextId = Len(store) + 1 ]
       /\ levelConfig = Level(Len(store))
  /\ frameCount = 0
  /\ isPaused = FALSE
  /\ inventory = InitialInventory
  /\ screen = "PLAYING"
  /\ mounted = TRUE
  /\ events = << >>
  /\ log = << >>
  /\ session = [ frames |-> 2, inputs |-> 2, rolls |-> PlainRolls ]
  /\ call = NoCall

NextResize ==
  \/ Frame
  \/ \E aim \in Aims, nextColor \in levelConfig.colors :
       handleClick(aim, nextColor)
  \/ \E type \in PowerupTypes : usePowerup(type)
  \/ \E viewport \in ResizeViewports : resize(viewport)

SpecResize == InitResize /\ [][NextResize]_vars

\* o2 is o * L2 / L1 at the resolution of the model
Scaled(o, o2, L1, L2) == o2 * L1 <= o * L2 /\ o * L2 < (o2 + 1) * L1

\* the step is a resize: nothing else replaces the path
ResizeStep == sim'.pathPoints # sim.pathPoints

\* C11: resize scale invariance.  A resize from path length L1 > 0 to
\* L2 > 0 replaces every offset o by o * L2 / L1, keeps the store order and
\* every marble's identity, colour and type, and changes no projectile,
\* score, credit, counter, timer or flag.
C11_ResizeScale ==
  [][ ResizeStep =>
        /\ Len(sim'.marbles) = Len(sim.marbles)
        /\ \A k \in 1..Len(sim.marbles) :
             /\ sim'.marbles[k].id = sim.marbles[k].id
             /\ sim'.marbles[k].color = sim.marbles[k].color
             /\ sim'.marbles[k].type = sim.marbles[k].type
             /\ Scaled(sim.marbles[k].offset, sim'.marbles[k].offset,
                       sim.pathLength, sim'.pathLength)
        /\ Sorted(sim.marbles) => Sorted(sim'.marbles)
        /\ sim'.projectiles = sim.projectiles
        /\ sim'.score = sim.score
        /\ sim'.credits = sim.credits
        /\ sim'.comboStreak = sim.comboStreak
        /\ sim'.marblesSpawned = sim.marblesSpawned
        /\ sim'.slowMoTimer = sim.slowMoTimer
        /\ sim'.reverseTimer = sim.reverseTimer
        /\ sim'.empNextShot = sim.empNextShot
        /\ frameCount' = frameCount ]_vars

\* a store of three marbles was rescaled to a shorter path with a
\* projectile in flight
C11_Witness ==
  /\ \E k \in Entries(log, "resize") :
       /\ Len(log[k].before) = 3
       /\ sim.pathLength < log[k].oldLength
       /\ sim.marbles[1].offset < log[k].before[1].offset
  /\ Len(sim.projectiles) = 1

\* C12 as claimed: after a resize to a shorter path of a non-overlapping
\* store whose core-most offset is below the old length, the core-most
\* offset is below the new length, and it still is once the overlap
\* resolution has re-separated the compressed marbles.
C12_NoSpuriousLoss ==
  \A k \in Entries(log, "resize") :
    ( /\ Len(log[k].before) > 0
      /\ NoOverlap(log[k].before)
      /\ log[k].before[1].offset < log[k].oldLength
      /\ sim.pathLength < log[k].oldLength )
    => /\ sim.marbles[1].offset < sim.pathLength
       /\ OverlapResolution(Ctx).marbles[1].offset < sim.pathLength

----------------------------------------------------------------------------
(* Sessions with pauses, inputs and powerups                                *)

\* frames stepped in one such session
HostFrames == 2

\* the store of a level in play: a NORMAL marble or an ICE marble in reach
\* of a shot
HostStores ==
  { SpacedStore(<< << "CYAN", type >> >>, << >>, 1, offset) :
      type \in { "NORMAL", "ICE" }, offset \in { 16600 } }

\* slowMoTimer and reverseTimer of a level in play
HostTimers == { << 0, 0 >>, << 1, 2 >> }

\* playerState.inventory of a level in play
HostInventories ==
  { InitialInventory, [ EMP |-> 0, SLOW |-> 1, REVERSE |-> 1 ] }

InitHost ==
  /\ \E store \in HostStores, timers \in HostTimers :
       sim = [ LevelStart(<< 300, 100 >>, "CYAN", "MAGENTA") EXCEPT
                 !.marbles = store, !.marblesSpawned = 1, !.nextId = 2,
                 !.slowMoTimer = timers[1], !.reverseTimer = timers[2] ]
  /\ levelConfig = Level(2)
  /\ frameCount = 0
  /\ isPaused = FALSE
  /\ inventory \in HostInventories
  /\ screen = "PLAYING"
  /\ mounted = TRUE
  /\ events = << >>
  /\ log = << >>
  /\ session = [ frames |-> HostFrames, inputs |-> 2, rolls |-> PlainRolls ]
  /\ call = NoCall

NextHost ==
  \/ Frame
  \/ \E aim \in Aims, nextColor \in levelConfig.colors :
       handleClick(aim, nextColor)
  \/ handleKeyDown
  \/ \E type \in PowerupTypes : usePowerup(type)
  \/ togglePause

SpecHost == InitHost /\ [][NextHost]_vars

\* the step is a frame stepped while paused
PausedFrame == isPaused /\ Entries(log', "paused") # {}

\* C13: pause gate.  A frame stepped while paused changes none of the
\* marble store, projectile store, particles, floating texts, score,
\* credits, comboStreak, frame counter, spawned count, slow-motion and
\* reverse timers or the EMP-armed flag, and emits no callback.
C13_PauseGate ==
  [][ PausedFrame =>
        /\ \A f \in { "marbles", "projectiles", "particles", "floatingTexts",
                       "score", "credits", "comboStreak", "marblesSpawned",
                       "slowMoTimer", "reverseTimer", "empNextShot" } :
             sim'[f] = sim[f]
        /\ frameCount' = frameCount
        /\ events' = << >> ]_vars

\* a frame was stepped while paused with a marble on the path, a projectile
\* in flight, a floating text on screen, a timer running and the EMP armed
C13_Witness ==
  /\ isPaused
  /\ Entries(log, "paused") # {}
  /\ sim.marbles # << >>
  /\ sim.projectiles # << >>
  /\ sim.floatingTexts # << >>
  /\ sim.slowMoTimer > 0

\* the refs a powerup activation writes
PowerupFields == { "slowMoTimer", "reverseTimer", "empNextShot" }

\* the refs a fire or colour-swap input writes
ShooterFields == { "projectiles", "currentShooterColor", "nextMarbleColor" }

Counted(n) == IF n > 0 THEN n - 1 ELSE 0

\* the step is an unpaused frame: only its logic block advances frameCount
UnpausedFrame == frameCount' = frameCount + 1

\* activateIce ran in the frame that ended: its floating text has decayed once
IceActivated(sm) ==
  \E k \in 1..Len(sm.floatingTexts) :
    /\ sm.floatingTexts[k].text = "CONGELADO"
    /\ sm.floatingTexts[k].life = 98

\* C15 as claimed: both timers are non-negative integers, every unpaused
\* frame decrements each positive timer by exactly 1 and leaves a zero timer
\* at 0, and a paused frame leaves both unchanged.
C15_FrameCounters ==
  [][ /\ sim'.slowMoTimer \in Nat /\ sim'.reverseTimer \in Nat
      /\ UnpausedFrame =>
           /\ sim'.slowMoTimer = Counted(sim.slowMoTimer)
           /\ sim'.reverseTimer = Counted(sim.reverseTimer)
      /\ PausedFrame =>
           /\ sim'.slowMoTimer = sim.slowMoTimer
           /\ sim'.reverseTimer = sim.reverseTimer ]_vars

\* C15, amended: the same, except that an unpaused frame in which an ICE
\* marble is activated ends with the slow-motion timer at 180.
C15_FrameCountersIce ==
  [][ /\ sim'.slowMoTimer \in Nat /\ sim'.reverseTimer \in Nat
      /\ UnpausedFrame =>
           /\ sim'.slowMoTimer = IF IceActivated(sim') THEN 180
                                 ELSE Counted(sim.slowMoTimer)
           /\ sim'.reverseTimer = Counted(sim.reverseTimer)
      /\ PausedFrame =>
           /\ sim'.slowMoTimer = sim.slowMoTimer
           /\ sim'.reverseTimer = sim.reverseTimer ]_vars

\* an unpaused frame took the reverse timer from 1 to 0 and
\* activated an ICE marble
C15_Witness ==
  /\ FrameRan
  /\ frameCount = 2
  /\ sim.reverseTimer = 0
  /\ IceActivated(sim)
  /\ sim.slowMoTimer = 180

----------------------------------------------------------------------------
(* The spawn roll, for every roll and LUCK level                            *)

\* highest LUCK upgrade level drawn
MaxLuck == 2

\* Math.random() in thousandths: every value of [0, 1) at that resolution
RollValues == 0..999

InitRoll ==
  /\ \E rnd \in RollValues, luck \in 0..MaxLuck :
       call = [ op |-> "spawnRoll", rnd |-> rnd, luck |-> luck,
                type |-> "NORMAL", done |-> FALSE ]
  /\ sim = LevelStart(<< 60, 100 >>, "CYAN", "CYAN")
  /\ levelConfig = Level(1)
  /\ frameCount = 0
  /\ isPaused = FALSE
  /\ inventory = InitialInventory
  /\ screen = "PLAYING"
  /\ mounted = TRUE
  /\ events = << >>
  /\ log = << >>
  /\ session = [ frames |-> 0, inputs |-> 0, rolls |-> Rolls ]

\* the type roll of a spawn
applySpawnRoll ==
  /\ call.op = "spawnRoll"
  /\ ~call.done
  /\ call' = [ call EXCEPT !.type = SpawnRoll(call.rnd, BaseChance(call.luck)),
                           !.done = TRUE ]
  /\ UNCHANGED << sim, frameCount, levelConfig, isPaused, inventory, screen,
                  mounted, events, log, session >>

NextRoll == applySpawnRoll

SpecRoll == InitRoll /\ [][NextRoll]_vars

\* the roll of a spawn has chosen a type
Rolled == call.op = "spawnRoll" /\ call.done

\* C16 as claimed: with basePercent 0.02 and luck 0, the roll 0.019 yields
\* WILDCARD, the roll 0.021 yields NORMAL and the roll 0.039 yields BOMB.
C16_RollSeeds ==
  (Rolled /\ call.luck = 0) =>
    /\ call.rnd = 19 => call.type = "WILDCARD"
    /\ call.rnd = 21 => call.type = "NORMAL"
    /\ call.rnd = 39 => call.type = "BOMB"

\* C16, amended: with basePercent 0.02 and luck 0, the roll 0.019 yields
\* WILDCARD, and the rolls 0.021 and 0.039 both yield BOMB.
C16_RollSeedsBomb ==
  (Rolled /\ call.luck = 0) =>
    /\ call.rnd = 19 => call.type = "WILDCARD"
    /\ call.rnd = 21 => call.type = "BOMB"
    /\ call.rnd = 39 => call.type = "BOMB"

\* the roll 0.021 was drawn with luck 0 and chose a BOMB
C16_Witness ==
  Rolled /\ call.luck = 0 /\ call.rnd = 21 /\ call.type = "BOMB"

\* the tiers of the claim for a roll r and p = 0.02 + luckBonus, in
\* thousandths: the types whose interval holds r
TiersOf(r, p) ==
  { type \in MarbleTypes :
      \/ type = "WILDCARD" /\ r < p
      \/ type = "BOMB" /\ p <= r /\ r < 2 * p
      \/ type = "ICE" /\ 2 * p <= r /\ 10 * r < 25 * p
      \/ type = "COIN" /\ 25 * p <= 10 * r /\ r < 3 * p
      \/ type = "NORMAL" /\ 3 * p <= r }

\* C17: spawn roll rule.  For a roll r in [0, 1) and p = 0.02 + luckBonus
\* the type is WILDCARD iff r < p, BOMB iff p <= r < 2p, ICE iff
\* 2p <= r < 2.5p, COIN iff 2.5p <= r < 3p and NORMAL otherwise; the tiers
\* are pairwise disjoint and cover every r.
C17_SpawnRollRule ==
  Rolled => TiersOf(call.rnd, 20 + call.luck * 20) = { call.type }

\* a roll on the boundary between the ICE and COIN tiers, with a LUCK
\* upgrade, chose a COIN
C17_Witness ==
  /\ Rolled
  /\ call.luck = 1
  /\ call.rnd = 100
  /\ call.type = "COIN"

----------------------------------------------------------------------------
(* generatePathPoints(type, width, height, steps), statement by statement   *)

\* the steps argument: raw samples and resampling targets (2000 by default)
RawSteps == 4

\* most points uniformPoints can hold before push fails for lack of memory
MaxPoints == 8

\* the curve families drawn: with RawSteps samples their points are exact
PathTypes == { "sine", "default" }

\* window.innerWidth and window.innerHeight drawn, 0 included
PathSizes == { 0, 200, 300, 400 }

\* NaN as a coordinate
NaN == "NaN"

\* getRawPathPoints before the rotation, in the generation space gw x gh:
\* sample i of 'sine' is (interpolate(50, gw - 50, t), cy + sin(8 pi t) * ..),
\* of the default circle (cx + cos(2 pi t) * scale, cy + sin(2 pi t) * scale),
\* with t = i / RawSteps, scale = min(gw, gh) * 0.4
RawSample(type, gw, gh, i) ==
  IF type = "sine"
  THEN [ x |-> Px(50) + ((Px(gw) - Px(100)) * i) \div RawSteps,
         y |-> Px(gh) \div 2 ]
  ELSE [ x |-> Px(gw) \div 2
                 + (CASE i % 4 = 0 -> 1 [] i % 4 = 2 -> -1 [] OTHER -> 0)
                   * ((Px(Min(gw, gh)) * 4) \div 10),
         y |-> Px(gh) \div 2
                 + (CASE i % 4 = 1 -> 1 [] i % 4 = 3 -> -1 [] OTHER -> 0)
                   * ((Px(Min(gw, gh)) * 4) \div 10) ]

\* getRawPathPoints(type, width, height, steps): portrait viewports are
\* generated in landscape and their points have x and y swapped
getRawPathPoints(type, width, height) ==
  IF height > width
  THEN [ i \in 1..(RawSteps + 1) |->
           [ x |-> RawSample(type, height, width, i - 1).y,
             y |-> RawSample(type, height, width, i - 1).x ] ]
  ELSE [ i \in 1..(RawSteps + 1) |-> RawSample(type, width, height, i - 1) ]

\* segmentLengths of the raw points
SegmentLengths(raw) ==
  [ i \in 1..(Len(raw) - 1) |-> getDistance(raw[i], raw[i + 1]) ]

\* p1 + (p2 - p1) * t with t = num / len; NaN when len is 0 (0 / 0)
Resampled(p1, p2, num, len) ==
  IF len = 0 THEN [ x |-> NaN, y |-> NaN ]
  ELSE [ x |-> p1.x + FloorDiv((p2.x - p1.x) * num, len),
         y |-> p1.y + FloorDiv((p2.y - p1.y) * num, len) ]

\* the locals of generatePathPoints when the resampling loop is entered
PathCall(type, width, height) ==
  [ op |-> "generatePathPoints", type |-> type, width |-> width,
    height |-> height,
    rawPoints |-> getRawPathPoints(type, width, height),
    segmentLengths |-> SegmentLengths(getRawPathPoints(type, width, height)),
    totalLength |-> getPathLength(getRawPathPoints(type, width, height)),
    targetStep |->
      getPathLength(getRawPathPoints(type, width, height)) \div RawSteps,
    uniformPoints |-> << getRawPathPoints(type, width, height)[1] >>,
    accumulatedDist |-> 0,
    targetD |->
      getPathLength(getRawPathPoints(type, width, height)) \div RawSteps,
    i |-> 1, dividedByZero |-> FALSE, pc |-> "resample" ]

InitPath ==
  /\ \E type \in PathTypes, width \in PathSizes, height \in PathSizes :
       call = PathCall(type, width, height)
  /\ sim = LevelStart(<< 60, 100 >>, "CYAN", "CYAN")
  /\ levelConfig = Level(1)
  /\ frameCount = 0
  /\ isPaused = FALSE
  /\ inventory = InitialInventory
  /\ screen = "PLAYING"
  /\ mounted = TRUE
  /\ events = << >>
  /\ log = << >>
  /\ session = [ frames |-> 0, inputs |-> 0, rolls |-> Rolls ]

\* the resampling loop is at a segment
Resampling ==
  /\ call.op = "generatePathPoints"
  /\ call.pc = "resample"
  /\ call.i <= Len(call.segmentLengths)

\* while (targetD <= accumulatedDist + len)
TargetInSegment ==
  call.targetD <= call.accumulatedDist + call.segmentLengths[call.i]

\* the body of the while loop: one resampled point is pushed
pushTarget ==
  /\ Resampling
  /\ TargetInSegment
  /\ call' =
       IF Len(call.uniformPoints) >= MaxPoints
       THEN [ call EXCEPT !.pc = "out of memory" ]
       ELSE [ call EXCEPT
                !.uniformPoints =
                  Append(@, Resampled(call.rawPoints[call.i],
                                      call.rawPoints[call.i + 1],
                                      call.targetD - call.accumulatedDist,
                                      call.segmentLengths[call.i])),
                !.dividedByZero = @ \/ call.segmentLengths[call.i] = 0,
                !.targetD = @ + call.targetStep ]
  /\ UNCHANGED << sim, frameCount, levelConfig, isPaused, inventory, screen,
                  mounted, events, log, session >>

\* the while loop is left: accumulatedDist += len; i++
nextSegment ==
  /\ Resampling
  /\ ~TargetInSegment
  /\ call' = [ call EXCEPT
                 !.accumulatedDist = @ + call.segmentLengths[call.i],
                 !.i = @ + 1 ]
  /\ UNCHANGED << sim, frameCount, levelConfig, isPaused, inventory, screen,
                  mounted, events, log, session >>

\* the for loop is left: the last raw point is pushed and the path returned
returnPath ==
  /\ call.op = "generatePathPoints"
  /\ call.pc = "resample"
  /\ call.i > Len(call.segmentLengths)
  /\ call' = [ call EXCEPT
                 !.uniformPoints =
                   Append(@, call.rawPoints[Len(call.rawPoints)]),
                 !.pc = "returned" ]
  /\ UNCHANGED << sim, frameCount, levelConfig, isPaused, inventory, screen,
                  mounted, events, log, session >>

NextPath ==
  \/ pushTarget
  \/ nextSegment
  \/ returnPath

SpecPath == InitPath /\ [][NextPath]_vars

\* the function runs to its end once called
FairPath == SpecPath /\ WF_vars(NextPath)

\* C18 as claimed: generatePathPoints returns for every curve type and
\* viewport size; it never divides by zero, and for a raw curve of total
\* length 0 what it returns is a path of 2 points.
C18_PathTotal ==
  /\ [](call.op = "generatePathPoints" => ~call.dividedByZero)
  /\ <>( /\ call.op = "generatePathPoints"
          /\ call.pc = "returned"
          /\ call.totalLength = 0 => Len(call.uniformPoints) = 2 )

----------------------------------------------------------------------------
(* getPointAtDistance(distance, points, totalLength) on drawn polylines     *)

\* safeIdx = max(0, min(floor(distance / totalLength * (n - 1)), n - 2))
SafeIdx(distance, points, totalLength) ==
  Max(0, Min(FloorDiv(distance * (Len(points) - 1), totalLength),
             Len(points) - 2))

\* ratio = (distance - safeIdx * segmentLen) / segmentLen with
\* segmentLen = totalLength / (n - 1): its numerator over totalLength
RatioNum(distance, points, totalLength) ==
  distance * (Len(points) - 1)
    - SafeIdx(distance, points, totalLength) * totalLength

\* polylines drawn: level paths, a path of two points, and a path with a
\* corner and segments of unequal length
PointPaths ==
  { generatePathPoints(viewport[1], viewport[2]) :
      viewport \in { << 60, 100 >>, << 80, 100 >>, << 130, 100 >> } }
  \cup { << [ x |-> 0, y |-> 0 ], [ x |-> Px(70), y |-> 0 ] >>,
         << [ x |-> 0, y |-> 0 ], [ x |-> Px(50), y |-> 0 ],
            [ x |-> Px(50), y |-> Px(20) ] >> }

\* distances drawn for a path of length len: before the start, on it every
\* 7 pixels, next to both ends, at the end and beyond it
PointDistances(len) ==
  { - Px(1), 0, 1, len - 1, len, len + 1, len + Px(1) }
  \cup { d \in 0..len : d % Px(7) = 0 }

InitPoint ==
  /\ \E points \in PointPaths :
       \E distance \in PointDistances(getPathLength(points)) :
         call = [ op |-> "getPointAtDistance", distance |-> distance,
                  points |-> points, totalLength |-> getPathLength(points),
                  point |-> points[1], safeIdx |-> 0, num |-> 0,
                  done |-> FALSE ]
  /\ sim = LevelStart(<< 60, 100 >>, "CYAN", "CYAN")
  /\ levelConfig = Level(1)
  /\ frameCount = 0
  /\ isPaused = FALSE
  /\ inventory = InitialInventory
  /\ screen = "PLAYING"
  /\ mounted = TRUE
  /\ events = << >>
  /\ log = << >>
  /\ session = [ frames |-> 0, inputs |-> 0, rolls |-> Rolls ]

\* getPointAtDistance on the drawn arguments; safeIdx and the ratio are
\* observed when the interpolation branch is taken
applyGetPointAtDistance ==
  /\ call.op = "getPointAtDistance"
  /\ ~call.done
  /\ call' =
       [ call EXCEPT
           !.point = getPointAtDistance(call.distance, call.points,
                                        call.totalLength),
           !.safeIdx = IF 0 < call.distance /\ call.distance < call.totalLength
                       THEN SafeIdx(call.distance, call.points,
                                    call.totalLength)
                       ELSE 0,
           !.num = IF 0 < call.distance /\ call.distance < call.totalLength
                   THEN RatioNum(call.distance, call.points, call.totalLength)
                   ELSE 0,
           !.done = TRUE ]
  /\ UNCHANGED << sim, frameCount, levelConfig, isPaused, inventory, screen,
                  mounted, events, log, session >>

NextPoint == applyGetPointAtDistance

SpecPoint == InitPoint /\ [][NextPoint]_vars

\* p lies on the axis-parallel segment from a to b
OnSegment(p, a, b) ==
  /\ Min(a.x, b.x) <= p.x /\ p.x <= Max(a.x, b.x)
  /\ Min(a.y, b.y) <= p.y /\ p.y <= Max(a.y, b.y)

\* C19: clamp and index safety of getPointAtDistance.  For d <= 0 the
\* result is the first point, for d >= L the last; for 0 < d < L the
\* segment index lies in [0, points.length - 2], the ratio in [0, 1], and
\* the result on the segment between the two consecutive points.
C19_PointAtDistance ==
  (call.op = "getPointAtDistance" /\ call.done) =>
    /\ call.distance <= 0 => call.point = call.points[1]
    /\ call.distance >= call.totalLength
         => call.point = call.points[Len(call.points)]
    /\ (0 < call.distance /\ call.distance < call.totalLength) =>
         /\ call.safeIdx \in 0..(Len(call.points) - 2)
         /\ 0 <= call.num /\ call.num <= call.totalLength
         /\ OnSegment(call.point, call.points[call.safeIdx + 1],
                      call.points[call.safeIdx + 2])

\* a distance next to the end of the path with a corner was resolved on
\* its last segment
C19_Witness ==
  /\ call.op = "getPointAtDistance"
  /\ call.done
  /\ Len(call.points) = 3
  /\ call.distance = call.totalLength - 1
  /\ call.safeIdx = 1
  /\ call.point.x = Px(50)

----------------------------------------------------------------------------
(* The end of a long level: one marble is half a percent of the quota       *)

\* a level with a quota of 200 marbles
ReportLevel == Level(200)

\* the marbles left on the path, in contact, in reach of a shot
ReportStores ==
  { SpacedStore(kinds, [ k \in 1..(Len(kinds) - 1) |-> Required ], 1, 16600) :
      kinds \in { << << "CYAN", "ICE" >> >>, << << "CYAN", "BOMB" >> >>,
                  << << "CYAN", "NORMAL" >>, << "CYAN", "NORMAL" >> >>,
                  << << "CYAN", "ICE" >>, << "MAGENTA", "NORMAL" >> >>,
                  << << "MAGENTA", "NORMAL" >>, << "CYAN", "COIN" >>,
                     << "CYAN", "BOMB" >> >> } }

\* the quota is spawned; the progress last reported is the current one or
\* the one of a store with one marble more
InitReport ==
  /\ \E store \in ReportStores, lag \in { 0, 100 } :
       sim = [ LevelStart(<< 300, 100 >>, "CYAN", "CYAN") EXCEPT
                 !.marbles = store,
                 !.marblesSpawned = ReportLevel.spawnCount,
                 !.nextId = Len(store) + 1,
                 !.lastReportedProgress =
                   100 * (ReportLevel.spawnCount - Len(store)) - lag ]
  /\ levelConfig = ReportLevel
  /\ frameCount = 0
  /\ isPaused = FALSE
  /\ inventory = InitialInventory
  /\ screen = "PLAYING"
  /\ mounted = TRUE
  /\ events = << >>
  /\ log = << >>
  /\ session = [ frames |-> HostFrames, inputs |-> 2, rolls |-> PlainRolls ]
  /\ call = NoCall

NextReport ==
  \/ Frame
  \/ \E aim \in Aims, nextColor \in levelConfig.colors :
       handleClick(aim, nextColor)

SpecReport == InitReport /\ [][NextReport]_vars

\* the callbacks cb among evs
Calls(evs, cb) == { k \in 1..Len(evs) : evs[k].cb = cb }

\* max(0, 100 * (1 - (quota - spawned + alive) / quota)), times the quota
ProgressOf(sm, quota) ==
  Max(0, 100 * quota - 100 * (quota - sm.marblesSpawned + Len(sm.marbles)))

\* C20: progress and score reporting.  At the end of an unpaused frame the
\* progress is max(0, 100 * (1 - (quota - spawned + alive) / quota)); the
\* progress callback is emitted, with that progress, iff it differs from
\* the progress last reported by more than 0.5, the score callback iff the
\* score differs from the score last reported, each at most once.
C20_Reporting ==
  [][ UnpausedFrame =>
        /\ Cardinality(Calls(events', "onProgressUpdate")) =
             IF 2 * Abs(ProgressOf(sim', levelConfig.spawnCount)
                        - sim.lastReportedProgress) > levelConfig.spawnCount
             THEN 1 ELSE 0
        /\ \A k \in Calls(events', "onProgressUpdate") :
             events'[k].pct = ProgressOf(sim', levelConfig.spawnCount)
        /\ Cardinality(Calls(events', "onScoreUpdate")) =
             IF sim'.score # sim.lastReportedScore THEN 1 ELSE 0
        /\ \A k \in Calls(events', "onScoreUpdate") :
             events'[k].score = sim'.score ]_vars

\* a contact of the frame removed one marble of 200: the progress, exactly
\* 0.5 away from the one last reported, was not reported
C20_Witness ==
  /\ FrameRan
  /\ levelConfig.spawnCount = 200
  /\ Entries(log, "hit") # {}
  /\ Calls(events, "onProgressUpdate") = {}
  /\ Abs(ProgressOf(sim, 200) - sim.lastReportedProgress) = 100

----------------------------------------------------------------------------
(* The animation-frame loop: requestAnimationFrame and the loop effect      *)

\* handles requestAnimationFrame hands out in one session
MaxHandles == 30

\* the effect cleanup without cancelAnimationFrame
Cleanup_NoCancel(c) ==
  [ c EXCEPT !.subscribed = FALSE, !.last = "cleanup" ]

\* return () => { cancelAnimationFrame(requestRef.current); ... }
Cleanup(c) ==
  [ c EXCEPT !.pending = @ \ { c.requestRef },
             !.subscribed = FALSE, !.last = "cleanup" ]

\* requestRef.current = requestAnimationFrame(animate)
Request(c) ==
  [ c EXCEPT !.pending = @ \cup { c.handles + 1 },
             !.requestRef = c.handles + 1,
             !.handles = @ + 1 ]

\* useEffect(() => { requestRef.current = requestAnimationFrame(animate); ... })
Subscribe(c) ==
  [ Request(c) EXCEPT !.subscribed = TRUE, !.last = "subscribe" ]

\* the callbacks of one display refresh: every callback pending when the
\* refresh starts runs animate once, which requests its successor
RECURSIVE RunCallbacks(_, _)
RunCallbacks(c, n) ==
  IF n = 0 THEN c
  ELSE RunCallbacks([ Request(c) EXCEPT !.passes = @ + 1 ], n - 1)

\* the loop after the effect of the first render has run
InitLoop ==
  /\ call = Subscribe([ op |-> "loop", pending |-> { }, requestRef |-> 0,
                        handles |-> 0, subscribed |-> FALSE, passes |-> 0,
                        last |-> "none" ])
  /\ sim = LevelStart(<< 60, 100 >>, "CYAN", "CYAN")
  /\ levelConfig = Level(1)
  /\ frameCount = 0
  /\ isPaused = FALSE
  /\ inventory = InitialInventory
  /\ screen = "PLAYING"
  /\ mounted = TRUE
  /\ events = << >>
  /\ log = << >>
  /\ session = [ frames |-> 0, inputs |-> 0, rolls |-> Rolls ]

LoopCall == call.op = "loop"

\* a display refresh: the browser runs the callbacks pending at its start
refresh ==
  /\ LoopCall
  /\ call.pending # { }
  /\ call.handles + Cardinality(call.pending) <= MaxHandles
  /\ call' = [ RunCallbacks([ call EXCEPT !.pending = { }, !.passes = 0 ],
                            Cardinality(call.pending))
               EXCEPT !.last = "refresh" ]
  /\ UNCHANGED << sim, frameCount, levelConfig, isPaused, inventory, screen,
                  mounted, events, log, session >>

\* animate changed (isPaused or another dependency): the effect is cleaned
\* up and run again
restart ==
  /\ LoopCall
  /\ call.subscribed
  /\ call.handles < MaxHandles
  /\ call' = [ Subscribe(Cleanup(call)) EXCEPT !.last = "restart" ]
  /\ UNCHANGED << sim, frameCount, levelConfig, isPaused, inventory, screen,
                  mounted, events, log, session >>

\* the cleanup runs: on unmount, or once more when the loop is stopped
cleanup ==
  /\ LoopCall
  /\ call' = Cleanup(call)
  /\ UNCHANGED << sim, frameCount, levelConfig, isPaused, inventory, screen,
                  mounted, events, log, session >>

\* the effect runs again after a cleanup
subscribe ==
  /\ LoopCall
  /\ ~call.subscribed
  /\ call.handles < MaxHandles
  /\ call' = Subscribe(call)
  /\ UNCHANGED << sim, frameCount, levelConfig, isPaused, inventory, screen,
                  mounted, events, log, session >>

NextLoop ==
  \/ refresh
  \/ restart
  \/ cleanup
  \/ subscribe

SpecLoop == InitLoop /\ [][NextLoop]_vars

----------------------------------------------------------------------------
(* The score handed to the host with the outcome                            *)

\* C22: final score on game over.  The score passed to onGameOver is the
\* session score at the end of the frame that signals the outcome: no
\* points are added in that frame after the callback.
C22_FinalScore ==
  [][ \A k \in Calls(events', "onGameOver") :
        events'[k].score = sim'.score ]_vars

----------------------------------------------------------------------------
(* Trains with gaps: the movement of the chains                             *)

\* longest marble store drawn as input of the movement
MaxPullStore == 3

\* frames stepped from such a store
PullFrames == 2

\* colour and type of the marbles of such a store
PullKinds ==
  { << "CYAN", "NORMAL" >>, << "MAGENTA", "NORMAL" >>,
    << "CYAN", "WILDCARD" >> }

\* gaps between neighbours: in contact, inside one chain, and chains of
\* their own that the base speed of the chain behind runs into, leaves
\* within the half pixel of the contact distance, within reach of one pull,
\* and farther than one pull
PullGaps == { Px(26), Px(29), Px(30), 5360, Px(60), Px(80) }

\* reverseTimer and slowMoTimer when the store is stepped
PullTimers == { << 0, 0 >>, << 3, 0 >>, << 0, 3 >>, << 1, 0 >>, << 3, 3 >> }

PullStores(maxStore) ==
  UNION { { SpacedStore(kinds, gaps, 1, 16600) :
              kinds \in [ 1..n -> PullKinds ],
              gaps \in [ 1..(n - 1) -> PullGaps ] } : n \in 1..maxStore }

\* the quota is spawned, no projectile is in flight
InitPull ==
  /\ \E store \in PullStores(MaxPullStore), timers \in PullTimers :
       sim = [ LevelStart(<< 300, 100 >>, "CYAN", "CYAN") EXCEPT
                 !.marbles = store,
                 !.marblesSpawned = MaxPullStore,
                 !.nextId = Len(store) + 1,
                 !.reverseTimer = timers[1],
                 !.slowMoTimer = timers[2] ]
  /\ levelConfig = Level(MaxPullStore)
  /\ frameCount = 0
  /\ isPaused = FALSE
  /\ inventory = InitialInventory
  /\ screen = "PLAYING"
  /\ mounted = TRUE
  /\ events = << >>
  /\ log = << >>
  /\ session = [ frames |-> PullFrames, inputs |-> 0, rolls |-> PlainRolls ]
  /\ call = NoCall

NextPull == Frame

SpecPull == InitPull /\ [][NextPull]_vars

\* the "moved" observations of a log
Movements(lg) == { lg[k] : k \in Entries(lg, "moved") }

\* the marbles of chain i of a movement
ChainOf(e, i) == e.chains[i][1]..e.chains[i][2]

\* a frame whose movement ran with the reverse timer at 0
ForwardFrame == UnpausedFrame /\ sim'.reverseTimer = 0

\* C23 as stated: base-speed chain.  When no reverse is active the chain
\* nearest the core, chain 0 of the sorted partition, moves at the base
\* speed, also when the store has two or more chains.
C23_BaseChainFirst ==
  [][ ForwardFrame =>
        \A e \in Movements(log') :
          e.chains # << >> =>
            \A k \in ChainOf(e, 1) :
              e.store[k].speed = e.base ]_vars

\* C23: base-speed chain.  When no reverse is active the chain that moves
\* forward at the base speed is the last chain of the sorted partition, the
\* one farthest from the core; every chain ahead of it has a velocity of 0
\* or below.
C23_BaseChainLast ==
  [][ ForwardFrame =>
        \A e \in Movements(log') :
          \A i \in 1..Len(e.chains) :
            \A k \in ChainOf(e, i) :
              /\ e.base > 0
              /\ IF i = Len(e.chains) THEN e.store[k].speed = e.base
                 ELSE e.store[k].speed <= 0 ]_vars

\* a train of two chains was moved: the chain behind at the base speed, the
\* chain nearest the core pulled back
C23_Witness ==
  /\ FrameRan
  /\ sim.reverseTimer = 0
  /\ \E e \in Movements(log) :
       /\ Len(e.chains) = 2
       /\ e.store[e.chains[2][1]].speed = e.base
       /\ e.store[1].speed < 0

\* the chains of a movement that have a chain behind them
Pulled(e) == 1..(Len(e.chains) - 1)

\* velocity of chain i of a movement, read from its tail marble
VelocityOf(e, i) == e.store[e.chains[i][2]].speed

\* gap of chain i, before it moves, to the updated head of the chain behind
GapBehind(e, i) ==
  e.before[e.chains[i][2]].offset - e.store[e.chains[i + 1][1]].offset

\* gap of chain i to the chain behind it after both have moved
GapAfter(e, i) ==
  e.store[e.chains[i][2]].offset - e.store[e.chains[i + 1][1]].offset

\* the tail of chain i colour-matches the head of the chain behind
TailMatches(e, i) ==
  \/ e.before[e.chains[i][2]].color = e.before[e.chains[i + 1][1]].color
  \/ "WILDCARD" \in { e.before[e.chains[i][2]].type,
                      e.before[e.chains[i + 1][1]].type }

\* all marbles of chain i moved at one velocity
OneVelocity(e, i) ==
  \A k \in ChainOf(e, i) : e.store[k].speed = VelocityOf(e, i)

\* C24 as stated: magnetic pull.  With reverse inactive a chain with a chain
\* behind it has velocity 0 if its tail does not colour-match the head
\* behind, else the velocity -min(gap - 2 * radius, maxReverse) between
\* -maxReverse and 0, the gap measured to the updated chain behind; after
\* the move the gap to the chain behind is not below 2 * radius.
C24_MagneticPull ==
  [][ ForwardFrame =>
        \A e \in Movements(log') : \A i \in Pulled(e) :
          /\ OneVelocity(e, i)
          /\ ~TailMatches(e, i) => VelocityOf(e, i) = 0
          /\ TailMatches(e, i) =>
               /\ e.revMax <= VelocityOf(e, i)
               /\ VelocityOf(e, i) <= 0
               /\ VelocityOf(e, i) =
                    -Min(GapBehind(e, i) - Required, -e.revMax)
          /\ GapAfter(e, i) >= Required ]_vars

\* C24: magnetic pull.  With reverse inactive a chain with a chain behind
\* it has velocity 0 if its tail does not colour-match the head behind or
\* if gap - 2 * radius is at most half a pixel, else the velocity
\* -min(gap - 2 * radius, maxReverse) between -maxReverse and 0, the gap
\* measured to the updated chain behind; a pull does not overshoot: it is
\* no longer than gap - 2 * radius, and the chain lands on gap + v up to the
\* rounding of the sum.
C24_MagneticPullDeadZone ==
  [][ ForwardFrame =>
        \A e \in Movements(log') : \A i \in Pulled(e) :
          /\ OneVelocity(e, i)
          /\ e.revMax <= VelocityOf(e, i)
          /\ VelocityOf(e, i) <= 0
          /\ VelocityOf(e, i) =
               IF TailMatches(e, i) /\ GapBehind(e, i) - Required > 50
               THEN -Min(GapBehind(e, i) - Required, -e.revMax)
               ELSE 0
          /\ VelocityOf(e, i) < 0 =>
               /\ GapBehind(e, i) + VelocityOf(e, i) >= Required
               /\ \E r \in Roundings :
                    GapAfter(e, i) = GapBehind(e, i) + VelocityOf(e, i) - r ]_vars

\* three chains were moved: the chain nearest the core was pulled at
\* -maxReverse, the chain behind it by less, down to the contact distance
C24_Witness ==
  /\ FrameRan
  /\ sim.reverseTimer = 0
  /\ \E e \in Movements(log) :
       /\ Len(e.chains) = 3
       /\ VelocityOf(e, 1) = e.revMax
       /\ VelocityOf(e, 2) < 0
       /\ VelocityOf(e, 2) > e.revMax
       /\ GapAfter(e, 2) = Required

\* the indices at which the combo check of a log invoked handleMatches
ComboChecks(lg) ==
  { lg[k].combo : k \in Entries(lg, "resolved") } \ { 0 }

\* C25: physics-driven combo.  Whenever a chain that moved backwards in a
\* tick ends the movement in contact with the chain behind it, the tick
\* invokes handleMatches with isCombo = true at the contact index, the head
\* of the chain behind.
C25_PhysicsCombo ==
  [][ UnpausedFrame =>
        \A e \in Movements(log') : \A i \in Pulled(e) :
          VelocityOf(e, i) < 0 /\ GapAfter(e, i) <= Required
            => e.chains[i + 1][1] \in ComboChecks(log') ]_vars

\* a frame whose movement ran with the reverse timer still positive after
\* its decrement
ReverseFrame == UnpausedFrame /\ sim.reverseTimer > 1

\* -4 * reverseForce * timeScale of a frame that starts from the current
\* state: the time scale is 0.4 while the slow-motion timer is positive
\* after its decrement
ForcedVelocity ==
  -((4 * reverseForceMultiplier * (IF sim.slowMoTimer > 1 THEN 4 ELSE 10))
      \div 10)

\* C26: forced reverse.  In every unpaused tick in which the reverse timer
\* is positive after its decrement every marble receives the velocity
\* -4 * reverseForce * timeScale: the velocity integration moves every
\* marble back by that much, changes no gap and increases no offset.
C26_ForcedReverse ==
  [][ ReverseFrame =>
        \A e \in Movements(log') :
          /\ ForcedVelocity < 0
          /\ \A k \in 1..Len(e.store) :
               /\ e.store[k].speed = ForcedVelocity
               /\ e.store[k].offset = e.before[k].offset + ForcedVelocity
               /\ e.store[k].offset <= e.before[k].offset
          /\ \A k \in 1..(Len(e.store) - 1) :
               e.store[k].offset - e.store[k + 1].offset =
                 e.before[k].offset - e.before[k + 1].offset ]_vars

\* a train of two chains of different lengths was moved back in slow motion
C26_Witness ==
  /\ FrameRan
  /\ sim.reverseTimer > 0
  /\ sim.slowMoTimer > 0
  /\ \E e \in Movements(log) :
       /\ e.chains = << << 1, 2 >>, << 3, 3 >> >>
       /\ \A k \in 1..3 : e.store[k].offset = e.before[k].offset - 160

----------------------------------------------------------------------------
(* Spawning around the end of the rush phase and the end of the quota       *)

\* a level with a quota of 20 marbles
SpawnLevel == Level(20)

\* marblesSpawned when the session is observed
SpawnCounts == { 0, 17, 18, 19, 20 }

\* offsets of the marble nearest the spawn point: at and just beyond the gap
\* requirements MARBLE_RADIUS * 2.2 and MARBLE_RADIUS * 2.4
SpawnOffsets == { 2860, 2861, 3120, 3121 }

\* the marbles on the path: none, one, or two in two chains
SpawnStores ==
  { << >> } \cup
  { SpacedStore(<< << "CYAN", "NORMAL" >> >>, << >>, 1, tail) :
      tail \in SpawnOffsets } \cup
  { SpacedStore(<< << "CYAN", "NORMAL" >>, << "MAGENTA", "NORMAL" >> >>,
                << 16600 - tail >>, 1, 16600) : tail \in SpawnOffsets }

InitSpawn ==
  /\ \E store \in SpawnStores, spawned \in SpawnCounts :
       /\ spawned >= Len(store)
       /\ sim = [ LevelStart(<< 300, 100 >>, "CYAN", "CYAN") EXCEPT
                    !.marbles = store,
                    !.marblesSpawned = spawned,
                    !.nextId = Len(store) + 1 ]
  /\ levelConfig = SpawnLevel
  /\ frameCount = 0
  /\ isPaused = FALSE
  /\ inventory = InitialInventory
  /\ screen = "PLAYING"
  /\ mounted = TRUE
  /\ events = << >>
  /\ log = << >>
  /\ session = [ frames |-> HostFrames, inputs |-> 1, rolls |-> PlainRolls ]
  /\ call = NoCall

SpecSpawn == InitSpawn /\ [][Next]_vars

\* the marbles of the sorted store of a movement that the store at the
\* start of the step does not hold
Spawned(e) ==
  { k \in 1..Len(e.before) :
      \A j \in 1..Len(sim.marbles) : sim.marbles[j].id # e.before[k].id }

\* C27: spawning.  An unpaused tick spawns at most one marble, and only if
\* marblesSpawned < spawnCount and the store is empty or every offset in it
\* exceeds the gap requirement; the spawned marble has offset 0;
\* marblesSpawned increases by 1 per spawn, is changed by no other step and
\* never exceeds spawnCount.
C27_Spawning ==
  [][ /\ sim'.marblesSpawned <= levelConfig.spawnCount
      /\ sim'.marblesSpawned \in
           { sim.marblesSpawned, sim.marblesSpawned + 1 }
      /\ ~UnpausedFrame => sim'.marblesSpawned = sim.marblesSpawned
      /\ UnpausedFrame =>
           \A e \in Movements(log') :
             /\ Cardinality(Spawned(e)) =
                  sim'.marblesSpawned - sim.marblesSpawned
             /\ \A k \in Spawned(e) : e.before[k].offset = 0
             /\ Spawned(e) # {} =>
                  /\ sim.marblesSpawned < levelConfig.spawnCount
                  /\ \A k \in 1..Len(sim.marbles) :
                       sim.marbles[k].offset >
                         IF sim.marblesSpawned < 18
                         THEN MARBLE_RADIUS * 220
                         ELSE MARBLE_RADIUS * 240 ]_vars

\* the last marble of the quota was spawned behind a marble just beyond the
\* gap requirement of the phase after the rush
C27_Witness ==
  /\ FrameRan
  /\ sim.marblesSpawned = 20
  /\ \E e \in Movements(log) :
       /\ Len(e.before) = 2
       /\ e.before[1].offset = 3121
       /\ e.before[2].offset = 0

----------------------------------------------------------------------------
(* handleMatches applied to stores with trigger-type marbles                *)

\* longest marble store with trigger-type marbles drawn as input
MaxTriggerStore == 5

\* colour and type of the marbles of such a store
TriggerKinds ==
  { << "CYAN", "NORMAL" >>, << "MAGENTA", "NORMAL" >>, << "CYAN", "BOMB" >>,
    << "MAGENTA", "COIN" >>, << "CYAN", "ICE" >> }

TriggerStores(maxStore) ==
  UNION { { StoreOf(kinds, (n - 1) * Required) :
              kinds \in [ 1..n -> TriggerKinds ] } : n \in 1..maxStore }

InitTrigger ==
  /\ \E store \in TriggerStores(MaxTriggerStore) :
       /\ sim = [ LevelStart(<< 200, 100 >>, "CYAN", "CYAN") EXCEPT
                   !.marbles = store, !.marblesSpawned = Len(store),
                   !.nextId = Len(store) + 1 ]
       /\ levelConfig = Level(Len(store))
       /\ \E idx \in 1..Len(store), isCombo \in BOOLEAN :
            call = [ op |-> "handleMatches", idx |-> idx, isCombo |-> isCombo,
                     before |-> store, ret |-> FALSE, done |-> FALSE ]
  /\ frameCount = 0
  /\ isPaused = FALSE
  /\ inventory = InitialInventory
  /\ screen = "PLAYING"
  /\ mounted = TRUE
  /\ events = << >>
  /\ log = << >>
  /\ session = [ frames |-> 0, inputs |-> 0, rolls |-> Rolls ]

SpecTrigger == InitTrigger /\ [][applyHandleMatches]_vars

\* the trigger-type marbles whose effect a call handleMatches(idx, ...) on
\* store q may dispatch: the pivot, or those of a run of three or more
Triggers(q, idx) ==
  IF q[idx].type \in TriggerTypes THEN { idx }
  ELSE IF Cardinality(RunOf(q, idx)) >= 3
       THEN { k \in RunOf(q, idx) : q[k].type \in TriggerTypes }
       ELSE {}

\* the texts of the floating texts, in order
TextsOf(q) == [ k \in 1..Len(q) |-> q[k].text ]

\* the state is the one the effect of marble k of store q leaves: a BOMB
\* removes the marbles within its blast radius, a COIN itself, paying its
\* credits, an ICE itself, starting the slow motion
Dispatched(q, k) ==
  IF q[k].type = "BOMB"
  THEN /\ sim.marbles =
            Survivors(q, getPointAtDistance(q[k].offset, sim.pathPoints,
                                            sim.pathLength), Px(100))
       /\ TextsOf(sim.floatingTexts) = << "BOOM!" >>
       /\ sim.credits = 0 /\ sim.slowMoTimer = 0 /\ events = << >>
  ELSE IF q[k].type = "COIN"
  THEN /\ sim.marbles = Without(q, { k }, 1)
       /\ TextsOf(sim.floatingTexts) = << "+CR" >>
       /\ sim.credits = 50 /\ sim.slowMoTimer = 0
       /\ events = << [ cb |-> "onCreditsUpdate", amount |-> 50 ] >>
  ELSE /\ sim.marbles = Without(q, { k }, 1)
       /\ TextsOf(sim.floatingTexts) = << "CONGELADO" >>
       /\ sim.credits = 0 /\ sim.slowMoTimer = 180 /\ events = << >>

\* C28: trigger-type priority.  If the pivot of handleMatches is a BOMB, COIN
\* or ICE marble, or its run has three or more marbles and holds such a
\* marble, the call returns true having dispatched the effect of the pivot,
\* or of one such marble of the run, and nothing else: no score is added and
\* only the marbles that the effect removes leave the store.
C28_TriggerPriority ==
  (MatchDone /\ Triggers(call.before, call.idx) # {}) =>
    /\ call.ret
    /\ sim.score = 0
    /\ \E k \in Triggers(call.before, call.idx) : Dispatched(call.before, k)

\* a run of three CYAN marbles at the far end of a store of five held an ICE
\* marble: the ICE marble alone left the store, no score was added
C28_Witness ==
  /\ MatchDone
  /\ TypesOf(call.before) = << "BOMB", "NORMAL", "NORMAL", "ICE", "NORMAL" >>
  /\ ColoursOf(call.before)
       = << "CYAN", "MAGENTA", "CYAN", "CYAN", "CYAN" >>
  /\ call.idx = 5
  /\ TypesOf(sim.marbles) = << "BOMB", "NORMAL", "NORMAL", "NORMAL" >>
  /\ sim.score = 0
  /\ call.ret

----------------------------------------------------------------------------
(* handleMatches applied to runs of one colour at a combo streak            *)

\* longest run drawn as input of the scoring
MaxRun == 7

\* largest comboStreak drawn as input of the scoring
MaxStreak == 4

ScoreStores(maxRun) ==
  { StoreOf([ k \in 1..n |-> << "CYAN", "NORMAL" >> ], (n - 1) * Required) :
      n \in 1..maxRun }

InitScore ==
  /\ \E store \in ScoreStores(MaxRun), streak \in 0..MaxStreak :
       /\ sim = [ LevelStart(<< 200, 100 >>, "CYAN", "CYAN") EXCEPT
                   !.marbles = store, !.marblesSpawned = Len(store),
                   !.nextId = Len(store) + 1, !.comboStreak = streak ]
       /\ levelConfig = Level(Len(store))
       /\ \E idx \in 1..Len(store), isCombo \in BOOLEAN :
            call = [ op |-> "handleMatches", idx |-> idx, isCombo |-> isCombo,
                     before |-> store, ret |-> FALSE, done |-> FALSE ]
  /\ frameCount = 0
  /\ isPaused = FALSE
  /\ inventory = InitialInventory
  /\ screen = "PLAYING"
  /\ mounted = TRUE
  /\ events = << >>
  /\ log = << >>
  /\ session = [ frames |-> 0, inputs |-> 0, rolls |-> Rolls ]

SpecScore == InitScore /\ [][applyHandleMatches]_vars

\* (n * 10 + (50 if isCombo else 0)) * scoreMultiplier, floored
CreditsFor(n, isCombo) ==
  FloorDiv((n * 10 + (IF isCombo THEN 50 ELSE 0)) * scoreMultiplier, 10)

\* C29: scoring.  A plain match of n >= 3 marbles adds
\* floor(n * 100 * scoreMultiplier * c * s) to the score, c = 1.5 if isCombo
\* else 1, s = 1 + 0.1 * comboStreak if comboStreak > 1 else 1, and
\* floor((n * 10 + (50 if isCombo else 0)) * scoreMultiplier) to the credits,
\* emitting the credits callback with that amount.
C29_Scoring ==
  (MatchDone /\ Len(call.before) >= 3) =>
    /\ sim.score =
         FloorDiv(Len(call.before) * 100 * scoreMultiplier
                    * (IF call.isCombo THEN 15 ELSE 10)
                    * (IF sim.comboStreak > 1 THEN 10 + sim.comboStreak
                       ELSE 10),
                  1000)
    /\ sim.credits = CreditsFor(Len(call.before), call.isCombo)
    /\ events = << [ cb |-> "onCreditsUpdate",
                     amount |-> CreditsFor(Len(call.before), call.isCombo) ] >>

----------------------------------------------------------------------------
(* The range of the offsets                                                 *)

\* C30: offset range.  In every reachable state every marble's offset is a
\* position along the path: 0 <= offset <= pathLength.
C30_OffsetRange ==
  \A k \in 1..Len(sim.marbles) :
    0 <= sim.marbles[k].offset /\ sim.marbles[k].offset <= sim.pathLength

----------------------------------------------------------------------------
(* Marbles leaving the store, outcomes of a session                         *)

\* the ids of the marbles of a store
IdSet(q) == { q[k].id : k \in 1..Len(q) }

\* the marble whose offset made the loss check of a log signal the loss
AtEnd(lg, pathLength) ==
  { lg[k].store[1].id : k \in { j \in Entries(lg, "checked") :
      /\ Len(lg[j].store) > 0
      /\ lg[j].store[1].offset >= pathLength } }

\* C31: marble destruction.  A marble leaves the store only in an unpaused
\* frame, through a match, an explosion, a coin pickup or an ice trigger of
\* a contact or a combo check, or by reaching the path end; the marble whose
\* offset >= pathLength signals the LOSS is removed from the store by the
\* frame that signals it.
C31_Destruction ==
  [][ /\ IdSet(sim.marbles) \ IdSet(sim'.marbles) # {} =>
           /\ UnpausedFrame
           /\ \/ Entries(log', "hit") # {}
              \/ ComboChecks(log') # {}
              \/ GameOvers(events', FALSE) # {}
      /\ GameOvers(events', FALSE) # {} =>
           AtEnd(log', sim'.pathLength) \cap IdSet(sim'.marbles) = {} ]_vars

\* C32: LOSS is terminal.  Once a LOSS has been signalled in a session (the
\* host shows GAME_OVER), no later frame of the session signals a WIN.
C32_LossTerminal ==
  [][ screen = "GAME_OVER" => GameOvers(events', TRUE) = {} ]_vars

----------------------------------------------------------------------------
(* A timed powerup activated before the first frame of a level in play      *)

\* frames stepped after the activation
DurationFrames == 601

\* the powerups with a frame counter
TimedPowerups == { "SLOW", "REVERSE" }

InitDuration ==
  /\ sim = [ LevelStart(<< 300, 100 >>, "CYAN", "CYAN") EXCEPT
               !.marbles = SpacedStore(<< << "CYAN", "NORMAL" >> >>, << >>, 1,
                                       16600),
               !.marblesSpawned = 1, !.nextId = 2 ]
  /\ levelConfig = Level(1)
  /\ frameCount = 0
  /\ isPaused = FALSE
  /\ inventory = InitialInventory
  /\ screen = "PLAYING"
  /\ mounted = TRUE
  /\ events = << >>
  /\ log = << >>
  /\ session = [ frames |-> DurationFrames, inputs |-> 1, rolls |-> PlainRolls ]
  /\ call = NoCall

\* the player activates one timed powerup, then the frames run
NextDuration ==
  \/ \E type \in TimedPowerups : usePowerup(type)
  \/ session.inputs = 0 /\ Frame

SpecDuration == InitDuration /\ [][NextDuration]_vars

\* the movement of a log ran at the reduced time scale 0.4
SlowApplied(lg) ==
  \E e \in Movements(lg) : e.forced * 10 = -(4 * reverseForceMultiplier) * 4

\* the movement of a log gave every marble the forced reverse velocity
ReverseApplied(lg) ==
  \E e \in Movements(lg) :
    \A k \in 1..Len(e.store) : e.store[k].speed = e.forced

C34_OutcomeOnce ==
  [][ /\ Cardinality(Calls(events', "onGameOver")) <= 1
      /\ screen # "PLAYING" => Calls(events', "onGameOver") = {} ]_vars

\* the quota of the level is spawned and the marble store is empty
QuotaCleared ==
  sim.marblesSpawned >= levelConfig.spawnCount /\ sim.marbles = << >>

\* C35: WIN is absorbing.  Once the spawn quota is exhausted and the marble
\* store is empty, no step (frame, shot, colour swap, powerup activation,
\* resize) adds a marble or a particle: the store stays empty and the
\* particles are the old ones, decayed or not; and once a WIN has been
\* signalled no step signals a LOSS.
C35_WinAbsorbing ==
  [][ /\ QuotaCleared =>
           /\ sim'.marbles = << >>
           /\ sim'.marblesSpawned = sim.marblesSpawned
           /\ sim'.particles \in { sim.particles, DecayParticles(sim.particles) }
      /\ screen = "VICTORY" => GameOvers(events', FALSE) = {} ]_vars

\* a shot fired after the WIN was signalled
C35_Witness ==
  /\ QuotaCleared
  /\ screen = "VICTORY"
  /\ Entries(log, "click") # {}

\* C36: an ICE trigger never shortens a slow-motion period.  In a frame in
\* which activateIce runs, the slow-motion counter after the trigger is at
\* least the value it had when the trigger ran, which is the value at the
\* start of the frame less the decrement of that frame.
C36_IceKeepsSlowMo ==
  [][ UnpausedFrame /\ IceActivated(sim') =>
        sim'.slowMoTimer >= sim.slowMoTimer - 1 ]_vars

----------------------------------------------------------------------------
(* EMP accounting                                                           *)

\* EMP powerups owned at the start of a session, bought in the shop
MaxOwned == 2

\* a level in play entered with MaxOwned EMP powerups
InitEmp ==
  /\ sim = [ LevelStart(<< 300, 100 >>, "CYAN", "MAGENTA") EXCEPT
               !.marbles = SpacedStore(<< << "CYAN", "NORMAL" >> >>, << >>, 1,
                                       16600),
               !.marblesSpawned = 1, !.nextId = 2 ]
  /\ levelConfig = Level(2)
  /\ frameCount = 0
  /\ isPaused = FALSE
  /\ inventory = [ InitialInventory EXCEPT !.EMP = MaxOwned ]
  /\ screen = "PLAYING"
  /\ mounted = TRUE
  /\ events = << >>
  /\ log = << >>
  /\ session = [ frames |-> HostFrames, inputs |-> MaxOwned + 1,
                 rolls |-> PlainRolls ]
  /\ call = NoCall

\* the player shoots and presses the EMP button
NextEmp ==
  \/ Frame
  \/ \E aim \in Aims, nextColor \in levelConfig.colors :
       handleClick(aim, nextColor)
  \/ usePowerup("EMP")

SpecEmp == InitEmp /\ [][NextEmp]_vars

\* 1 for an armed EMP, 0 otherwise
Armed(sm) == IF sm.empNextShot THEN 1 ELSE 0

\* the EMP projectiles fired by the step: a click that pushed a projectile
\* with isEmp set
EmpFired ==
  IF /\ Entries(log', "click") # {}
     /\ Len(sim'.projectiles) = Len(sim.projectiles) + 1
     /\ sim'.projectiles[Len(sim'.projectiles)].isEmp
  THEN 1 ELSE 0

\* C37: EMP accounting.  Every EMP powerup consumed results in exactly one
\* EMP projectile: on every step the number of onPowerupUsed(EMP) callbacks
\* equals the number of EMP projectiles fired by the step plus the change of
\* the armed flag, so that fired + armed = consumed is kept at all times.
C37_EmpAccounting ==
  [][ Cardinality({ k \in Calls(events', "onPowerupUsed") :
                      events'[k].type = "EMP" })
        = EmpFired + Armed(sim') - Armed(sim) ]_vars

----------------------------------------------------------------------------
(* Colours of a plain match                                                 *)

\* the marbles of store q that are no longer in store r
Gone(q, r) == { k \in 1..Len(q) : q[k].id \notin IdSet(r) }

\* C38: plain matches are colour-homogeneous.  When handleMatches removes
\* marbles without running a trigger (no BOMB, COIN or ICE is among the
\* removed), all removed marbles that are not WILDCARD share one colour, for
\* every pivot, a WILDCARD pivot included.
C38_OneColour ==
  MatchDone =>
    LET q == call.before
        gone == Gone(q, sim.marbles)
    IN (\A k \in gone : q[k].type \notin TriggerTypes)
       => \A j \in gone, k \in gone :
            q[j].type # "WILDCARD" /\ q[k].type # "WILDCARD"
              => q[j].color = q[k].color

----------------------------------------------------------------------------
(* Frame condition of an insertion                                          *)

\* the contacts of a log that inserted a marble
Insertions(lg) == { k \in Entries(lg, "hit") : IsInsertion(lg, k) }

\* C39: insertion frame condition.  In the store as the insertion and its
\* push leave it, the struck marble and every marble ahead of it have their
\* old offsets, the new marble lies behind the struck one, every marble
\* behind it has its old offset or a smaller one, so no offset has grown
\* and the core-most marble is where it was.
C39_InsertionFrame ==
  \A k \in Insertions(log) :
    LET old == log[k].before
        new == log[k - 1].store
        mIdx == log[k].target
    IN /\ Len(new) = Len(old) + 1
       /\ \A j \in 1..mIdx : new[j] = old[j]
       /\ new[mIdx + 1].offset < old[mIdx].offset
       /\ \A j \in (mIdx + 1)..Len(old) :
            /\ new[j + 1].id = old[j].id
            /\ new[j + 1].offset <= old[j].offset
       /\ new[1].offset = old[1].offset

\* an insertion in front of a neighbour closer than four radii, which the
\* push moved toward the spawn end
C39_Witness ==
  \E k \in Insertions(log) :
    LET old == log[k].before
        new == log[k - 1].store
        mIdx == log[k].target
    IN /\ mIdx < Len(old)
       /\ new[mIdx + 2].offset < old[mIdx + 1].offset

----------------------------------------------------------------------------
(* Lag of the reports                                                       *)

\* C40: reporting lag bound.  After every unpaused frame the progress last
\* reported lies in [0, 100] and differs from the current progress by at
\* most 0.5, and the score last reported is the current score.
C40_ReportLag ==
  [][ UnpausedFrame =>
        /\ sim'.lastReportedProgress >= 0
        /\ sim'.lastReportedProgress <= 100 * levelConfig.spawnCount
        /\ 2 * Abs(ProgressOf(sim', levelConfig.spawnCount)
                     - sim'.lastReportedProgress) <= levelConfig.spawnCount
        /\ sim'.lastReportedScore = sim'.score ]_vars

\* a frame that left the progress report exactly 0.5 behind the current
\* progress, inside [0, 100], with the score report up to date
C40_Witness ==
  /\ FrameRan
  /\ sim.lastReportedProgress > 0
  /\ sim.lastReportedProgress < ProgressOf(sim, levelConfig.spawnCount)
  /\ sim.lastReportedScore = sim.score
  /\ 2 * Abs(ProgressOf(sim, levelConfig.spawnCount)
               - sim.lastReportedProgress) = levelConfig.spawnCount

====
